---- MODULE Spec2Model ----
(***************************************************************************)
(* crypto-market-gateway: the snapshot ingestor (/api/snapshot), the       *)
(* derivation engine (/api/multi) and the alert evaluator (/api/alert)     *)
(* over one shared key-value store.                                        *)
(*                                                                         *)
(* Numbers.  Times are epoch milliseconds.  A percentage is kept exact as  *)
(* a fraction num/den in hundredths of a percent (den > 0), or null; the   *)
(* percentage thresholds of CFG are therefore written times 100            *)
(* (0.1 % is 10).  Prices and open interest are integers.                  *)
(* Key expiry (24 h / 48 h) is longer than any run modelled and is left    *)
(* out.                                                                    *)
(***************************************************************************)
EXTENDS Integers, Sequences, FiniteSets, TLC

VARIABLES
    now,          \* wall clock (Date.now()), ms
    snap,         \* snap5m:{inst}:{bucket}  : key -> stored snapshot
    instmap,      \* instmap:okx:swap:{base} : base -> "" (absent) | id | "__NONE__"
    instList,     \* okx:instruments:swap:list:v1 is cached
    series,       \* series5m:{inst}  : inst -> list of points
    lastBucket,   \* lastBucket:{inst}: inst -> bucket, NoNum when absent
    lastState,    \* alert:lastState:{mode}:{inst} : "" when absent
    lastState15m, \* alert:lastState15m:{inst}     : "" when absent
    lastSentAt,   \* alert:lastSentAt:{inst}       : NoNum when absent
    heartbeat,    \* alert:lastRun : <<>> when absent, else <<payload>>
    telegram,     \* messages handed to the notifier, in order
    run,          \* history: the last handler invocation and what it did
    hist          \* history: counters and logs the properties read

vars == <<now, snap, instmap, instList, series, lastBucket, lastState,
          lastState15m, lastSentAt, heartbeat, telegram, run, hist>>

kvData == <<snap, instmap, instList, series, lastBucket>>
kvAlert == <<lastState, lastState15m, lastSentAt, heartbeat>>

----------------------------------------------------------------------------
(* Bounds of the model *)

StartBucket == 300      \* bucket index of the clock at Init
MaxTicks == 3           \* clock advances per behaviour
MaxRuns == 2            \* handler invocations per behaviour
MaxElapsed == 4         \* buckets the clock advances between evaluator runs

(* Program constants *)

BUCKET_MS == 300000
SERIES_POINTS_24H == 288
MAX_NEEDED_POINTS == 49
NoNum == 0 - 1

Symbols == {"BTCUSDT", "ETHUSDT", "SOLUSDT", "LDOUSDT", "XYZUSDT", "ETHUSD"}
Bases == {"BTC", "ETH", "SOL", "LDO", "XYZ"}

\* The exchange's SWAP listing (what the instruments endpoint returns).
OkxListed == {"BTC-USDT-SWAP", "ETH-USDT-SWAP", "SOL-USDT-SWAP", "LDO-USDT-SWAP"}
Insts == {b \o "-USDT-SWAP" : b \in Bases}

TF_ORDER == <<"5m", "15m", "30m", "1h", "4h">>
TF_TO_STEPS == ("5m" :> 1) @@ ("15m" :> 3) @@ ("30m" :> 6) @@ ("1h" :> 12) @@ ("4h" :> 48)
TFs == DOMAIN TF_TO_STEPS

----------------------------------------------------------------------------
(* Small helpers *)

Min2(a, b) == IF a <= b THEN a ELSE b
Max2(a, b) == IF a >= b THEN a ELSE b
Abs(x) == IF x < 0 THEN 0 - x ELSE x

Range(s) == {s[k] : k \in DOMAIN s}
SeqMax(s) == CHOOSE x \in Range(s) : \A y \in Range(s) : y <= x
SeqMin(s) == CHOOSE x \in Range(s) : \A y \in Range(s) : x <= y

Bucket(t) == t \div BUCKET_MS

\* const v = e; body(v) -- e is computed once.
Bind(e, body(_)) == CHOOSE r \in {body(v) : v \in {e}} : TRUE

\* redis.lrange(key, -n, -1): the last n elements (all of them when fewer).
LRangeTail(s, n) == SubSeq(s, Max2(1, Len(s) - n + 1), Len(s))

\* redis.lrange(key, start, stop) / ltrim with 0-based, inclusive, positive indices.
LRange(s, start, stop) == SubSeq(s, start + 1, Min2(stop + 1, Len(s)))

----------------------------------------------------------------------------
(* Percentages, classification (api/multi.js) *)

NullPct == [nul |-> TRUE, num |-> 0, den |-> 1]

\* pctChange(now, prev): a missing operand is passed as NoNum.
pctChange(cur, prev) ==
    IF prev = NoNum \/ prev = 0 THEN NullPct
    ELSE IF cur = NoNum THEN NullPct
    ELSE [nul |-> FALSE, num |-> (cur - prev) * 10000, den |-> prev]

PctGt0(x) == ~x.nul /\ x.num > 0

\* A variant that counts an unchanged open interest as a growing one.
classifyStateOiGe(priceChgPct, oiChgPct) ==
    IF priceChgPct.nul \/ oiChgPct.nul THEN "unknown"
    ELSE LET pUp == priceChgPct.num > 0
             oiUp == oiChgPct.num >= 0
         IN  IF pUp /\ ~oiUp THEN "shorts closing"
             ELSE IF ~pUp /\ ~oiUp THEN "longs closing"
             ELSE IF pUp /\ oiUp THEN "longs opening"
             ELSE IF ~pUp /\ oiUp THEN "shorts opening"
             ELSE "unknown"

classifyState(priceChgPct, oiChgPct) ==
    IF priceChgPct.nul \/ oiChgPct.nul THEN "unknown"
    ELSE LET pUp == priceChgPct.num > 0
             oiUp == oiChgPct.num > 0
         IN  IF pUp /\ ~oiUp THEN "shorts closing"
             ELSE IF ~pUp /\ ~oiUp THEN "longs closing"
             ELSE IF pUp /\ oiUp THEN "longs opening"
             ELSE IF ~pUp /\ oiUp THEN "shorts opening"
             ELSE "unknown"

addLeanAndWhy(state) ==
    IF state = "longs opening" THEN "long"
    ELSE IF state = "shorts opening" THEN "short"
    ELSE IF state = "shorts closing" THEN "long"
    ELSE IF state = "longs closing" THEN "short"
    ELSE "neutral"

\* A variant that looks back one point less.
computeTfDeltasOneShort(points, tf) ==
    LET steps == TF_TO_STEPS[tf]
        needed == steps + 1
        n == Len(points)
        hasNow == n >= 1
        hasPrev == n >= needed
        nowP == IF hasNow THEN points[n].p ELSE NoNum
        nowOi == IF hasNow THEN points[n].oi ELSE NoNum
        prevP == IF hasPrev THEN points[n - needed + 2].p ELSE NoNum
        prevOi == IF hasPrev THEN points[n - needed + 2].oi ELSE NoNum
        price_change_pct == pctChange(nowP, prevP)
        oi_change_pct == pctChange(nowOi, prevOi)
        state == classifyState(price_change_pct, oi_change_pct)
    IN  [tf |-> tf,
         warmup |-> ~(hasNow /\ hasPrev),
         price_change_pct |-> price_change_pct,
         oi_change_pct |-> oi_change_pct,
         state |-> state,
         lean |-> addLeanAndWhy(state)]

computeTfDeltas(points, tf) ==
    LET steps == TF_TO_STEPS[tf]
        needed == steps + 1
        n == Len(points)
        hasNow == n >= 1
        hasPrev == n >= needed
        nowP == IF hasNow THEN points[n].p ELSE NoNum
        nowOi == IF hasNow THEN points[n].oi ELSE NoNum
        prevP == IF hasPrev THEN points[n - needed + 1].p ELSE NoNum
        prevOi == IF hasPrev THEN points[n - needed + 1].oi ELSE NoNum
        price_change_pct == pctChange(nowP, prevP)
        oi_change_pct == pctChange(nowOi, prevOi)
        state == classifyState(price_change_pct, oi_change_pct)
    IN  [tf |-> tf,
         warmup |-> ~(hasNow /\ hasPrev),
         price_change_pct |-> price_change_pct,
         oi_change_pct |-> oi_change_pct,
         state |-> state,
         lean |-> addLeanAndWhy(state)]

----------------------------------------------------------------------------
(* The Upstash client and the two safeJsonParse variants *)

\* What redis.get returns for a stored value: the client decodes a stored
\* JSON text into an object before handing it over; a missing key is null.
KvNull == [t |-> "null", v |-> <<>>]
UpstashGet(store, key) ==
    IF key \in DOMAIN store THEN [t |-> "object", v |-> store[key]] ELSE KvNull

\* api/snapshot.js: JSON.parse(v) in a try/catch.  JSON.parse of a string
\* gives the object; of an object (already decoded) it throws, caught as null.
snapshotSafeJsonParse(v) ==
    IF v.t = "string" THEN [t |-> "object", v |-> v.v] ELSE KvNull

\* api/multi.js: null stays null, an object is kept, a string is parsed.
multiSafeJsonParse(v) ==
    IF v.t = "null" THEN KvNull
    ELSE IF v.t = "object" THEN v
    ELSE IF v.t = "string" THEN [t |-> "object", v |-> v.v]
    ELSE KvNull

----------------------------------------------------------------------------
(* Instrument resolution (api/snapshot.js, api/multi.js) *)

baseFromSymbolUSDT(symbol) ==
    CASE symbol = "BTCUSDT" -> "BTC"
      [] symbol = "ETHUSDT" -> "ETH"
      [] symbol = "SOLUSDT" -> "SOL"
      [] symbol = "LDOUSDT" -> "LDO"
      [] symbol = "XYZUSDT" -> "XYZ"
      [] OTHER -> ""

\* resolveOkxSwapInstId with getOkxSwapInstrumentListCached inlined.
\* listOk: the instruments endpoint answers (when it has to be asked).
\* The result carries the id ("" for null) and the two caches after the call.
resolveOkxSwapInstId(symbol, im, il, listOk) ==
    LET base == baseFromSymbolUSDT(symbol)
        target == base \o "-USDT-SWAP"
    IN  IF base = "" THEN [id |-> "", instmap |-> im, instList |-> il]
        ELSE IF im[base] # ""
        THEN [id |-> IF im[base] = "__NONE__" THEN "" ELSE im[base],
              instmap |-> im, instList |-> il]
        ELSE IF ~il /\ ~listOk
        THEN [id |-> target, instmap |-> im, instList |-> il]
        ELSE IF target \in OkxListed
        THEN [id |-> target, instmap |-> [im EXCEPT ![base] = target], instList |-> TRUE]
        ELSE [id |-> "", instmap |-> [im EXCEPT ![base] = "__NONE__"], instList |-> TRUE]

\* The ingestor's own resolveOkxSwapInstId.  Its safeJsonParse hands the
\* cached listing, which the store client returns decoded, to JSON.parse and
\* gets null, so a resolution that misses the instrument map asks the listing
\* endpoint whatever the listing key holds; the calls of one request start
\* together, before any of them has filled the request's swapList.
\* listing: "ok" (answers), "not_ok" (answers with an error status), "throws"
\* (does not answer: the rejection of fetchWithTimeout is not caught here).
\* asked: the listing endpoint was called.
snapshotResolveNoMemo(symbol, im, il, listing) ==
    LET base == baseFromSymbolUSDT(symbol)
        target == base \o "-USDT-SWAP"
        answer(id, im2, il2, asked, thrown) ==
            [id |-> id, instmap |-> im2, instList |-> il2, asked |-> asked, thrown |-> thrown]
    IN  IF base = "" THEN answer("", im, il, FALSE, FALSE)
        ELSE IF listing = "throws" THEN answer("", im, il, TRUE, TRUE)
        ELSE IF listing = "not_ok" THEN answer(target, im, il, TRUE, FALSE)
        ELSE IF target \in OkxListed
        THEN answer(target, [im EXCEPT ![base] = target], TRUE, TRUE, FALSE)
        ELSE answer("", [im EXCEPT ![base] = "__NONE__"], TRUE, TRUE, FALSE)

snapshotResolveOkxSwapInstId(symbol, im, il, listing) ==
    LET base == baseFromSymbolUSDT(symbol)
        target == base \o "-USDT-SWAP"
        answer(id, im2, il2, asked, thrown) ==
            [id |-> id, instmap |-> im2, instList |-> il2, asked |-> asked, thrown |-> thrown]
    IN  IF base = "" THEN answer("", im, il, FALSE, FALSE)
        ELSE IF im[base] # ""
        THEN answer(IF im[base] = "__NONE__" THEN "" ELSE im[base], im, il, FALSE, FALSE)
        ELSE IF listing = "throws" THEN answer("", im, il, TRUE, TRUE)
        ELSE IF listing = "not_ok" THEN answer(target, im, il, TRUE, FALSE)
        ELSE IF target \in OkxListed
        THEN answer(target, [im EXCEPT ![base] = target], TRUE, TRUE, FALSE)
        ELSE answer("", [im EXCEPT ![base] = "__NONE__"], TRUE, TRUE, FALSE)

----------------------------------------------------------------------------
(* Market source: what the three OKX endpoints answer for one instrument *)

NoQuote == [ok |-> FALSE, price |-> 0, fr |-> 0, oi |-> 0]
Quote(p, oi) == [ok |-> TRUE, price |-> p, fr |-> 1, oi |-> oi]

\* fetchOkxSwap: an unlisted instrument has no data; a listed one answers
\* with the quote, or an endpoint fails.
fetchOkxSwap(instId, quote) ==
    IF instId \in OkxListed /\ quote.ok THEN quote ELSE NoQuote

----------------------------------------------------------------------------
(* Derivation engine: api/multi.js fetchOne and handler *)

Point(b, ts, p, fr, oi) == [b |-> b, ts |-> ts, p |-> p, fr |-> fr, oi |-> oi]

\* The once-per-bucket gate.
\* A gate that lets every run append.
ShouldAppendAlways(lastBucketNum, bucket) == TRUE

ShouldAppend(lastBucketNum, bucket) ==
    lastBucketNum = NoNum \/ lastBucketNum # bucket

\* rpush, then llen and ltrim(startKeep, lenAfter - 1) when over 288.
\* A trim that keeps the head of the list instead of its tail.
PushAndTrimKeepHead(s, point) ==
    LET pushed == Append(s, point)
    IN  LRange(pushed, 0, Min2(Len(pushed), SERIES_POINTS_24H) - 1)

PushAndTrim(s, point) ==
    LET pushed == Append(s, point)
        lenAfter == Len(pushed)
    IN  IF lenAfter > SERIES_POINTS_24H
        THEN LET startKeep == Max2(0, lenAfter - SERIES_POINTS_24H)
             IN  LRange(pushed, startKeep, lenAfter - 1)
        ELSE pushed

\* The trailing read: llen, then lrange(startIdx, endIdx), parsed.
ReadTail(s) ==
    LET seriesLen == Len(s)
        endIdx == Max2(0, seriesLen - 1)
        startIdx == Max2(0, seriesLen - MAX_NEEDED_POINTS)
    IN  IF seriesLen > 0 THEN LRange(s, startIdx, endIdx) ELSE <<>>

\* (raw || []).map(safeJsonParse).filter(Boolean): the client hands back the
\* list elements already decoded.
ParsePoints(raw) ==
    Bind(SelectSeq([k \in DOMAIN raw |-> multiSafeJsonParse([t |-> "object", v |-> raw[k]])],
                   LAMBDA x : x.t # "null"),
         LAMBDA kept : [k \in DOMAIN kept |-> kept[k].v])

\* okxCalled records whether fetchOne went to the market source for the item.
NotOkItem(symbol, instId, error, okxCalled) ==
    [ok |-> FALSE, symbol |-> symbol, instId |-> instId, error |-> error,
     price |-> 0, deltas |-> <<>>, okxCalled |-> okxCalled]

\* fetchOne(symbol, now, ...): kv is the part of the store it touches,
\* [instmap, instList, series, lastBucket]; the result is the item and kv after.
fetchOne(symbol, t, quote, listOk, kv) ==
    LET base == baseFromSymbolUSDT(symbol)
    IN  IF base = ""
        THEN [item |-> NotOkItem(symbol, "", "unsupported symbol format", FALSE), kv |-> kv]
        ELSE
        LET res == resolveOkxSwapInstId(symbol, kv.instmap, kv.instList, listOk)
            kv1 == [kv EXCEPT !.instmap = res.instmap, !.instList = res.instList]
            instId == res.id
        IN  IF instId = ""
            THEN [item |-> NotOkItem(symbol, base \o "-USDT-SWAP", "no OKX perp market", FALSE),
                  kv |-> kv1]
            ELSE
            LET okx == fetchOkxSwap(instId, quote)
            IN  IF ~okx.ok
                THEN [item |-> NotOkItem(symbol, instId, "okx fetch failed", TRUE), kv |-> kv1]
                ELSE
                LET bucket == Bucket(t)
                    lastBucketNum == kv1.lastBucket[instId]
                    wrote == ShouldAppend(lastBucketNum, bucket)
                    point == Point(bucket, t, okx.price, okx.fr, okx.oi)
                    kv2 == IF wrote
                           THEN [kv1 EXCEPT
                                   !.series[instId] = PushAndTrim(@, point),
                                   !.lastBucket[instId] = bucket]
                           ELSE kv1
                    points == ParsePoints(ReadTail(kv2.series[instId]))
                IN  [item |-> [ok |-> TRUE, symbol |-> symbol, instId |-> instId,
                               error |-> "", price |-> okx.price,
                               funding_rate |-> okx.fr,
                               deltas |-> [tf \in TFs |-> computeTfDeltas(points, tf)],
                               okxCalled |-> TRUE],
                     kv |-> kv2]

\* handler: fetchOne for every symbol of the request (distinct instruments
\* touch distinct keys, so the order of the parallel calls does not matter).
RECURSIVE multiHandler(_, _, _, _, _)
multiHandler(symbols, t, quotes, listOk, kv) ==
    IF symbols = <<>> THEN [results |-> <<>>, kv |-> kv]
    ELSE LET one == fetchOne(Head(symbols), t, quotes[Head(symbols)], listOk, kv)
             rest == multiHandler(Tail(symbols), t, quotes, listOk, one.kv)
         IN  [results |-> <<one.item>> \o rest.results, kv |-> rest.kv]

KvOfState == [instmap |-> instmap, instList |-> instList,
              series |-> series, lastBucket |-> lastBucket]

----------------------------------------------------------------------------
(* Ingestor: api/snapshot.js processOne and handler *)

SnapKey(instId, bucket) == <<instId, bucket>>

\* processOne: sk is [instmap, instList, snap, writes, calls]; writes is the
\* history of keys written by this call chain, in order, and calls the
\* outbound requests it made ("listing" or the instrument asked of the market
\* source), each with the symbol it was made for.  throws: the symbols whose
\* market fetch does not answer at all (timeout abort, network error), and
\* "listing" when the listing fetch does not: the rejection of
\* fetchWithTimeout is caught nowhere below the handler.
ListingOutcome(listOk, throws) ==
    IF "listing" \in throws THEN "throws" ELSE IF listOk THEN "ok" ELSE "not_ok"

processOne(symbol, t, quote, listOk, sk, throws) ==
    LET base == baseFromSymbolUSDT(symbol)
    IN  IF base = ""
        THEN [res |-> [ok |-> FALSE, symbol |-> symbol, error |-> "bad symbol format",
                       instId |-> ""],
              thrown |-> FALSE, sk |-> sk]
        ELSE
        LET r == snapshotResolveOkxSwapInstId(symbol, sk.instmap, sk.instList,
                                              ListingOutcome(listOk, throws))
            sk1 == [sk EXCEPT !.instmap = r.instmap, !.instList = r.instList,
                              !.calls = IF r.asked
                                        THEN Append(@, [to |-> "listing", for |-> symbol])
                                        ELSE @]
            sk1m == [sk1 EXCEPT !.calls = Append(@, [to |-> r.id, for |-> symbol])]
        IN  IF r.thrown
            THEN [res |-> [ok |-> FALSE, symbol |-> symbol, error |-> "aborted",
                           instId |-> ""],
                  thrown |-> TRUE, sk |-> sk1]
            ELSE IF r.id = ""
            THEN [res |-> [ok |-> FALSE, symbol |-> symbol, error |-> "no perp market",
                           instId |-> ""],
                  thrown |-> FALSE, sk |-> sk1]
            ELSE IF symbol \in throws
            THEN [res |-> [ok |-> FALSE, symbol |-> symbol, error |-> "aborted",
                           instId |-> ""],
                  thrown |-> TRUE, sk |-> sk1m]
            ELSE
            LET okx == fetchOkxSwap(r.id, quote)
            IN  IF ~okx.ok
                THEN [res |-> [ok |-> FALSE, symbol |-> symbol, error |-> "okx fetch failed",
                               instId |-> ""],
                      thrown |-> FALSE, sk |-> sk1m]
                ELSE
                LET keyNow == SnapKey(r.id, Bucket(t))
                    snapNowRaw == UpstashGet(sk1m.snap, keyNow)
                    snapNow == snapshotSafeJsonParse(snapNowRaw)
                    fresh == [price |-> okx.price, funding_rate |-> okx.fr,
                              open_interest_contracts |-> okx.oi, ts |-> t]
                    sk2 == IF snapNow.t = "null"
                           THEN [sk1m EXCEPT
                                   !.snap = [k \in DOMAIN @ \cup {keyNow} |->
                                               IF k = keyNow THEN fresh ELSE @[k]],
                                   !.writes = Append(@, keyNow)]
                           ELSE sk1m
                IN  [res |-> [ok |-> TRUE, symbol |-> symbol, error |-> "",
                              instId |-> r.id],
                     thrown |-> FALSE, sk |-> sk2]

\* Promise.all(symbols.map(processOne)): every call runs (distinct
\* instruments touch distinct keys); thrown tells whether one of them rejected.
RECURSIVE processAll(_, _, _, _, _, _)
processAll(symbols, t, quotes, listOk, sk, throws) ==
    IF symbols = <<>> THEN [results |-> <<>>, thrown |-> FALSE, sk |-> sk]
    ELSE LET one == processOne(Head(symbols), t, quotes[Head(symbols)], listOk, sk, throws)
             rest == processAll(Tail(symbols), t, quotes, listOk, one.sk, throws)
         IN  [results |-> <<one.res>> \o rest.results,
              thrown |-> one.thrown \/ rest.thrown, sk |-> rest.sk]

\* handler.  A rejection takes the catch: 500 and no results; the calls of
\* the other symbols are still in flight then, and their writes reach the
\* store (landed) or not.  One symbol: its result with 200 or 502; a batch:
\* the results with 200.
snapshotHandler(symbols, t, quotes, listOk, sk, throws, landed) ==
    Bind(processAll(symbols, t, quotes, listOk, sk, throws), LAMBDA all :
        IF all.thrown
        THEN [status |-> "500", results |-> <<>>, sk |-> IF landed THEN all.sk ELSE sk,
              calls |-> all.sk.calls]
        ELSE IF Len(all.results) = 1
        THEN [status |-> IF all.results[1].ok THEN "200" ELSE "502",
              results |-> all.results, sk |-> all.sk, calls |-> all.sk.calls]
        ELSE [status |-> "200", results |-> all.results, sk |-> all.sk,
              calls |-> all.sk.calls])

----------------------------------------------------------------------------
(* Alert evaluator: configuration (CFG defaults; percentages times 100) *)

cooldownMinutes == 20
momentumAbs5mPricePct == 10
shockOi15mPct == 50
shockAbs15mPricePct == 20
levelWindow1h == 12
levelWindow4h == 48
strongEdgePct1h == 15
swingReversalMin5mMovePct == 5
btc4hPricePctMin == 200
btc4hOiPctMin == 50
sweepLookbackPoints == 3
swingMinOiPct == 0 - 50
btcSymbol == "BTCUSDT"
MODE_PRIORITY == <<"scalp", "swing", "build">>
Modes == {"scalp", "swing", "build"}

\* normalizeModes: keep the allowed names, in the order given.
normalizeModes(raw) == SelectSeq(raw, LAMBDA m : m \in Modes)

\* A variant that keeps the modes in the order of the request.
prioritizeModesAsGiven(modes) == modes

\* prioritizeModes: MODE_PRIORITY filtered by membership.
prioritizeModes(modes) ==
    SelectSeq(MODE_PRIORITY, LAMBDA m : \E k \in DOMAIN modes : modes[k] = m)

\* handler: query modes, else the environment's (unset), else the legacy
\* default "scalp".
requestModes(raw) ==
    LET queryModes == normalizeModes(raw)
        baseModes == IF queryModes # <<>> THEN queryModes ELSE <<"scalp">>
    IN  prioritizeModes(baseModes)

\* asNum of a percentage: Number(null) is 0.
asNumPct(x) == IF x.nul THEN [nul |-> FALSE, num |-> 0, den |-> 1] ELSE x
\* x >= t and x <= t, x < t for a non-null percentage x and a threshold t
\* in hundredths of a percent.
PctGe(x, t) == x.num >= t * x.den
PctLe(x, t) == x.num <= t * x.den
PctLt(x, t) == x.num < t * x.den
\* (abs(x) ?? 0) >= t
AbsPctGe(x, t) == ~x.nul /\ Abs(x.num) >= t * x.den
\* (x ?? -Infinity) >= t
PctOrMinusInfGe(x, t) == ~x.nul /\ PctGe(x, t)

Prices(pts) == [k \in DOMAIN pts |-> pts[k].p]

\* A variant that asks for one point less than the window.
computeLevelsFromSeriesShort(s) ==
    LET need == Max2(levelWindow1h, levelWindow4h)
        pts == LRangeTail(s, need)
        level(n) ==
            IF Len(pts) < n - 1 THEN [warmup |-> TRUE, hi |-> 0, lo |-> 0]
            ELSE LET slice == Prices(LRangeTail(pts, n))
                 IN  [warmup |-> FALSE, hi |-> SeqMax(slice), lo |-> SeqMin(slice)]
    IN  ("1h" :> level(levelWindow1h)) @@ ("4h" :> level(levelWindow4h))

\* A variant that takes the levels from the window that ends before the
\* newest point.
computeLevelsFromSeriesBeforeNewest(s) ==
    LET need == Max2(levelWindow1h, levelWindow4h)
        pts == LRangeTail(s, need)
        level(n) ==
            IF Len(pts) < n + 1 THEN [warmup |-> TRUE, hi |-> 0, lo |-> 0]
            ELSE LET slice == Prices(SubSeq(pts, Len(pts) - n, Len(pts) - 1))
                 IN  [warmup |-> FALSE, hi |-> SeqMax(slice), lo |-> SeqMin(slice)]
    IN  ("1h" :> level(levelWindow1h)) @@ ("4h" :> level(levelWindow4h))

computeLevelsFromSeries(s) ==
    LET need == Max2(levelWindow1h, levelWindow4h)
        pts == LRangeTail(s, need)
        level(n) ==
            IF Len(pts) < n THEN [warmup |-> TRUE, hi |-> 0, lo |-> 0]
            ELSE LET slice == Prices(LRangeTail(pts, n))
                 IN  [warmup |-> FALSE, hi |-> SeqMax(slice), lo |-> SeqMin(slice)]
    IN  ("1h" :> level(levelWindow1h)) @@ ("4h" :> level(levelWindow4h))

getRecentPricesFromSeries(s, n) == Prices(LRangeTail(s, Max2(1, n)))

\* A variant that passes over a delta in warmup and takes the lean of the
\* next shorter timeframe.
biasFromItemWarmupFallback(item, mode) ==
    LET d == item.deltas
        lean5m == d["5m"].lean
        lean15m == IF d["15m"].warmup THEN lean5m ELSE d["15m"].lean
        lean1h == IF d["1h"].warmup THEN lean15m ELSE d["1h"].lean
        lean4h == IF d["4h"].warmup THEN lean1h ELSE d["4h"].lean
    IN  IF mode = "build" THEN lean4h
        ELSE IF mode = "swing" THEN lean1h
        ELSE lean5m

\* biasFromItem: every delta carries a lean ("neutral" included), so the
\* `||` fallbacks never take over.
biasFromItem(item, mode) ==
    LET lean5m == item.deltas["5m"].lean
        lean1h == item.deltas["1h"].lean
        lean4h == item.deltas["4h"].lean
    IN  IF mode = "build" THEN lean4h
        ELSE IF mode = "swing" THEN lean1h
        ELSE lean5m

\* edgeRecoCheck with edgePct = strongEdgePct1h: p <= lo + edge and
\* p >= hi - edge, with edge = edgePct * range, multiplied through by 100.
strongRecoB1(bias, levels, price) ==
    LET l1h == levels["1h"]
        range == l1h.hi - l1h.lo
    IN  IF l1h.warmup THEN FALSE
        ELSE IF ~(range > 0) THEN FALSE
        ELSE IF bias = "long" THEN 100 * (price - l1h.lo) <= strongEdgePct1h * range
        ELSE IF bias = "short" THEN 100 * (l1h.hi - price) <= strongEdgePct1h * range
        ELSE FALSE

evaluateCriteria(item, lastStateMode, mode) ==
    LET d5 == item.deltas["5m"]
        d15 == item.deltas["15m"]
        stateTf == IF mode = "scalp" THEN d5 ELSE d15
        curState == stateTf.state
        flip == lastStateMode # "" /\ curState # lastStateMode
        momentum == AbsPctGe(d5.price_change_pct, momentumAbs5mPricePct)
        shock5 == \/ PctOrMinusInfGe(d5.oi_change_pct, shockOi15mPct)
                  \/ AbsPctGe(d5.price_change_pct, shockAbs15mPricePct)
        shock15 == \/ PctOrMinusInfGe(d15.oi_change_pct, shockOi15mPct)
                   \/ AbsPctGe(d15.price_change_pct, shockAbs15mPricePct)
    IN  [triggers |-> (IF flip THEN {"setup_flip"} ELSE {})
                      \cup (IF momentum THEN {"momentum_confirm"} ELSE {})
                      \cup (IF shock5 \/ shock15 THEN {"positioning_shock"} ELSE {}),
         curState |-> curState]

computeBtcMacro(results) ==
    LET hits == {k \in DOMAIN results : results[k].symbol = btcSymbol}
    IN  IF hits = {} THEN [ok |-> FALSE, btcBullExpansion4h |-> FALSE]
        ELSE LET btcItem == results[CHOOSE k \in hits : \A j \in hits : k <= j]
             IN  IF ~btcItem.ok THEN [ok |-> FALSE, btcBullExpansion4h |-> FALSE]
                 ELSE LET d4 == btcItem.deltas["4h"]
                          pricePct == asNumPct(d4.price_change_pct)
                          oiPct == asNumPct(d4.oi_change_pct)
                      IN  [ok |-> TRUE,
                           btcBullExpansion4h |->
                               /\ d4.lean = "long"
                               /\ PctGe(pricePct, btc4hPricePctMin)
                               /\ PctGe(oiPct, btc4hOiPctMin)]

\* A variant that blocks the longs instead of the shorts.
macroBlocksLongs(macro, symbol, bias) ==
    macro.ok /\ macro.btcBullExpansion4h /\ symbol # btcSymbol /\ bias = "long"

macroBlocks(macro, symbol, bias) ==
    macro.ok /\ macro.btcBullExpansion4h /\ symbol # btcSymbol /\ bias = "short"

\* What an execution gate answers: ok, the reason, and the level its entry
\* line cites (0 when there is no entry line).
Gate(ok, reason, level) == [ok |-> ok, reason |-> reason, level |-> level]

\* recent: the prices getRecentPricesFromSeries returns for the instrument.
scalpExecutionGate(recent, item, bias, levels) ==
    LET l1h == levels["1h"]
        oi15 == asNumPct(item.deltas["15m"].oi_change_pct)
        hasRecent == recent # <<>>
        priceNow == item.price
    IN  IF l1h.warmup THEN Gate(FALSE, "1h_warmup", 0)
        ELSE IF PctLt(oi15, shockOi15mPct) THEN Gate(FALSE, "oi15_not_confirming", 0)
        ELSE IF bias = "long"
        THEN IF priceNow > l1h.hi THEN Gate(TRUE, "long_breakout", l1h.hi)
             ELSE IF hasRecent /\ SeqMin(recent) < l1h.lo /\ priceNow > l1h.lo
             THEN Gate(TRUE, "long_sweep_reclaim", l1h.lo)
             ELSE Gate(FALSE, "price_trigger_not_active", 0)
        ELSE IF bias = "short"
        THEN IF priceNow < l1h.lo THEN Gate(TRUE, "short_breakdown", l1h.lo)
             ELSE IF hasRecent /\ SeqMax(recent) > l1h.hi /\ priceNow < l1h.hi
             THEN Gate(TRUE, "short_sweep_reject", l1h.hi)
             ELSE Gate(FALSE, "price_trigger_not_active", 0)
        ELSE Gate(FALSE, "neutral_bias", 0)

\* A variant without the check of the range.
swingExecutionGateAnyRange(bias, levels, item) ==
    LET l1h == levels["1h"]
        oi15 == asNumPct(item.deltas["15m"].oi_change_pct)
        p5 == asNumPct(item.deltas["5m"].price_change_pct)
        p == item.price
        range == l1h.hi - l1h.lo
        inLowBand == 100 * (p - l1h.lo) <= strongEdgePct1h * range
        inHighBand == 100 * (l1h.hi - p) <= strongEdgePct1h * range
    IN  IF l1h.warmup THEN Gate(FALSE, "1h_warmup", 0)
        ELSE IF PctLt(oi15, swingMinOiPct) THEN Gate(FALSE, "oi15_too_negative_for_swing", 0)
        ELSE IF bias = "long"
        THEN IF p > l1h.hi THEN Gate(TRUE, "break_above_1h_high", l1h.hi)
             ELSE IF inLowBand /\ PctGe(p5, swingReversalMin5mMovePct)
             THEN Gate(TRUE, "b1_reversal_long", l1h.lo)
             ELSE Gate(FALSE, "no_entry_trigger", 0)
        ELSE IF bias = "short"
        THEN IF p < l1h.lo THEN Gate(TRUE, "break_below_1h_low", l1h.lo)
             ELSE IF inHighBand /\ PctLe(p5, 0 - swingReversalMin5mMovePct)
             THEN Gate(TRUE, "b1_reversal_short", l1h.hi)
             ELSE Gate(FALSE, "no_entry_trigger", 0)
        ELSE Gate(FALSE, "neutral_bias", 0)

\* The reasons carry the mode label in the code ("swing_..." / "build_...");
\* here the mode is kept beside the reason.
swingExecutionGate(bias, levels, item) ==
    LET l1h == levels["1h"]
        oi15 == asNumPct(item.deltas["15m"].oi_change_pct)
        p5 == asNumPct(item.deltas["5m"].price_change_pct)
        p == item.price
        range == l1h.hi - l1h.lo
        inLowBand == 100 * (p - l1h.lo) <= strongEdgePct1h * range
        inHighBand == 100 * (l1h.hi - p) <= strongEdgePct1h * range
    IN  IF l1h.warmup THEN Gate(FALSE, "1h_warmup", 0)
        ELSE IF PctLt(oi15, swingMinOiPct) THEN Gate(FALSE, "oi15_too_negative_for_swing", 0)
        ELSE IF ~(range > 0) THEN Gate(FALSE, "bad_range", 0)
        ELSE IF bias = "long"
        THEN IF p > l1h.hi THEN Gate(TRUE, "break_above_1h_high", l1h.hi)
             ELSE IF inLowBand /\ PctGe(p5, swingReversalMin5mMovePct)
             THEN Gate(TRUE, "b1_reversal_long", l1h.lo)
             ELSE Gate(FALSE, "no_entry_trigger", 0)
        ELSE IF bias = "short"
        THEN IF p < l1h.lo THEN Gate(TRUE, "break_below_1h_low", l1h.lo)
             ELSE IF inHighBand /\ PctLe(p5, 0 - swingReversalMin5mMovePct)
             THEN Gate(TRUE, "b1_reversal_short", l1h.hi)
             ELSE Gate(FALSE, "no_entry_trigger", 0)
        ELSE Gate(FALSE, "neutral_bias", 0)

\* The entry-validity rules of a mode (the `if (!force)` block of the
\* handler): scalp asks for B1 first, then its execution gate.
entryValid(mode, s, item, bias, levels) ==
    IF mode = "scalp"
    THEN IF ~strongRecoB1(bias, levels, item.price) THEN Gate(FALSE, "weak_reco", 0)
         ELSE scalpExecutionGate(getRecentPricesFromSeries(s, sweepLookbackPoints),
                                 item, bias, levels)
    ELSE swingExecutionGate(bias, levels, item)

----------------------------------------------------------------------------
(* Alert evaluator: state helpers and the handler (GET /api/alert) *)

\* Variants of the helpers below that drop one condition each.
writeLastStateAlways(mode, instId, curState, dry, ast) ==
    IF curState = "" \/ curState = "unknown" THEN ast
    ELSE [ast EXCEPT !.lastState[mode][instId] = curState,
                     !.lastState15m[instId] = IF mode # "scalp" THEN curState ELSE @]
writeLastStateSkip(mode, instId, curState, dry, ast) == ast
\* A variant that writes the legacy 15m key only.
writeLastStateLegacyOnly(mode, instId, curState, dry, ast) ==
    IF dry THEN ast
    ELSE IF curState = "" \/ curState = "unknown" THEN ast
    ELSE [ast EXCEPT !.lastState15m[instId] = IF mode # "scalp" THEN curState ELSE @]
onCooldownNever(force, lastSent, t) == FALSE
warmupGateForcedToo(force, levels) == levels["1h"].warmup
noTriggerSkipNever(force, triggers) == FALSE

\* Authentication.  An Authorization header "<scheme> <token>" is the record
\* [scheme, token]; no header is NoHeader.
NoHeader == [scheme |-> "", token |-> ""]

\* String.prototype.toLowerCase on the scheme words in use.
toLowerCase(w) ==
    CASE w = "Bearer" -> "bearer"
      [] w = "BEARER" -> "bearer"
      [] w = "Basic" -> "basic"
      [] OTHER -> w

\* authHeader.toLowerCase().startsWith("bearer ") ? authHeader.slice(7).trim() : ""
bearerOf(authHeader) ==
    IF toLowerCase(authHeader.scheme) = "bearer" THEN authHeader.token ELSE ""

\* A variant that prefers the query key to the bearer token.
providedKeyFirst(authHeader, key) ==
    IF key # "" THEN key ELSE bearerOf(authHeader)

\* const provided = bearer || key
providedOf(authHeader, key) ==
    IF bearerOf(authHeader) # "" THEN bearerOf(authHeader) ELSE key

\* A variant that forgets the check for an unset secret.
authorizedNoSecretCheck(secret, authHeader, key) ==
    providedOf(authHeader, key) = secret

\* the negation of `!secret || provided !== secret`
authorized(secret, authHeader, key) ==
    ~(secret = "" \/ providedOf(authHeader, key) # secret)

\* alert state touched by the item loop: [lastState, lastState15m, lastSentAt]
AlertOfState ==
    [lastState |-> lastState, lastState15m |-> lastState15m, lastSentAt |-> lastSentAt]

\* A variant that records only the runs that sent a message.
writeHeartbeatWhenSent(payload, dry, hb) == IF dry \/ ~payload.sent THEN hb ELSE <<payload>>

writeHeartbeat(payload, dry, hb) == IF dry THEN hb ELSE <<payload>>

writeLastState(mode, instId, curState, dry, ast) ==
    IF dry THEN ast
    ELSE IF curState = "" \/ curState = "unknown" THEN ast
    ELSE [ast EXCEPT !.lastState[mode][instId] = curState,
                     !.lastState15m[instId] = IF mode # "scalp" THEN curState ELSE @]

\* A variant that leaves the timestamp to a later step.
writeLastSentAtSkip(instId, t, dry, ast) == ast

\* A variant that stores the time elapsed since the previous send.
writeLastSentAtElapsed(instId, t, dry, ast) ==
    IF dry THEN ast
    ELSE [ast EXCEPT !.lastSentAt[instId] = t - Max2(@, 0)]

\* if (!dry) await redis.set(CFG.keys.lastSentAt(instId), String(now))
writeLastSentAt(instId, t, dry, ast) ==
    IF dry THEN ast ELSE [ast EXCEPT !.lastSentAt[instId] = t]

\* A variant that lets a run of the very millisecond of the last send pass.
onCooldownAfterOnly(force, lastSent, t) ==
    ~force /\ lastSent # NoNum /\ t > lastSent /\ t - lastSent < cooldownMinutes * 60000

\* A variant that denies whenever a send is on record.
onCooldownOnceSent(force, lastSent, t) ==
    ~force /\ lastSent # NoNum

\* if (!force && Number.isFinite(lastSent) && lastSent != null && now - lastSent < cooldownMs)
onCooldown(force, lastSent, t) ==
    ~force /\ lastSent # NoNum /\ t - lastSent < cooldownMinutes * 60000

\* if (!force && levels?.["1h"]?.warmup)
warmupGate(force, levels) == ~force /\ levels["1h"].warmup

\* if (!force && !triggers.length)
noTriggerSkip(force, triggers) == ~force /\ triggers = {}

NoWinner == [mode |-> ""]

\* A variant that never looks at the entry validity.
modeOutcomeNoEntryCheck(force, triggers, g) ==
    IF noTriggerSkip(force, triggers) THEN "no_triggers"
    ELSE IF ~force /\ g.blocked THEN "macro_block_btc_bull_expansion"
    ELSE "winner"

\* How the evaluation of one mode ends: the skip reason of the first gate
\* that denies, or "winner".  g = [blocked, valid]: the macro block condition
\* and the mode's entry validity.
modeOutcome(force, triggers, g) ==
    IF noTriggerSkip(force, triggers) THEN "no_triggers"
    ELSE IF ~force /\ g.blocked THEN "macro_block_btc_bull_expansion"
    ELSE IF ~force /\ ~g.valid THEN "entry_invalid"
    ELSE "winner"

\* CFG.leverage: budgets and OI thresholds in hundredths of a percent,
\* funding thresholds in the unit of a quote's funding rate (0.0001).
LeverageConfig(enabled, scalp, swing, build, cap, oi1, oi2, f1, f2) ==
    [enabled |-> enabled,
     riskBudgetPctByMode |-> [scalp |-> scalp, swing |-> swing, build |-> build],
     maxCap |-> cap, oiReduce1 |-> oi1, oiReduce2 |-> oi2,
     fundingReduce1 |-> f1, fundingReduce2 |-> f2]
DefaultLeverage == LeverageConfig(TRUE, 50, 100, 150, 15, 100, 250, 4, 8)

NoLeverage ==
    [suggestedLow |-> 0, suggestedHigh |-> 0, adjustedMax |-> 0,
     oiReduced |-> FALSE, fundingReduced |-> FALSE]
\* abs(x ?? 0) > t
AbsPctGt(x, t) == ~x.nul /\ Abs(x.num) > t * x.den

\* computeLeverageSuggestion; the floors are taken of exact fractions.
computeLeverageSuggestion(lev, bias, entryPrice, levels, item, mode) ==
    LET l1h == levels["1h"]
        riskBudgetPct == lev.riskBudgetPctByMode[mode]
        invalidation == IF bias = "long" THEN l1h.lo ELSE l1h.hi
        dist == Abs(entryPrice - invalidation)
        \* floor(riskBudgetPct / max(0.01, 100 * dist / price))
        baseMax == IF 10000 * dist < entryPrice THEN Max2(0, riskBudgetPct)
                   ELSE (Max2(0, riskBudgetPct) * entryPrice) \div (10000 * dist)
        oi5 == item.deltas["5m"].oi_change_pct
        oi15 == item.deltas["15m"].oi_change_pct
        oiMult == IF AbsPctGt(oi5, lev.oiReduce2) \/ AbsPctGt(oi15, lev.oiReduce2) THEN 60
                  ELSE IF AbsPctGt(oi5, lev.oiReduce1) \/ AbsPctGt(oi15, lev.oiReduce1) THEN 75
                  ELSE 100
        funding == Abs(item.funding_rate)
        fMult == IF funding > lev.fundingReduce2 THEN 60
                 ELSE IF funding > lev.fundingReduce1 THEN 80
                 ELSE 100
        adjustedMax == Max2(1, Min2((baseMax * oiMult * fMult) \div 10000, lev.maxCap))
    IN  IF ~lev.enabled THEN NoLeverage
        ELSE IF l1h.warmup THEN NoLeverage
        ELSE IF entryPrice = 0 \/ dist = 0 THEN NoLeverage
        ELSE [suggestedLow |-> Max2(1, adjustedMax \div 2),
              suggestedHigh |-> adjustedMax,
              adjustedMax |-> adjustedMax,
              oiReduced |-> oiMult < 100,
              fundingReduced |-> fMult < 100]

\* A variant that gives up a winner it has no suggestion for.
withLeverageOrNone(winner, leverage) ==
    IF leverage = NoLeverage THEN NoWinner ELSE winner @@ [leverage |-> leverage]

\* winner.leverage = computeLeverageSuggestion(...)
withLeverage(winner, leverage) == winner @@ [leverage |-> leverage]

\* The mode loop of one item: modes[k..] in priority order, first pass wins;
\* a = [ast, evals] so far.
RECURSIVE evalModes(_, _, _, _, _, _, _, _, _, _)
evalModes(item, modes, k, dry, force, macro, lev, levels, s, a) ==
    IF k > Len(modes) THEN [winner |-> NoWinner, ast |-> a.ast, evals |-> a.evals]
    ELSE
    LET mode == modes[k]
        instId == item.instId
        lastStateMode == a.ast.lastState[mode][instId]
        bias == biasFromItem(item, mode)
    IN  Bind(evaluateCriteria(item, lastStateMode, mode), LAMBDA ec :
        Bind(entryValid(mode, s, item, bias, levels), LAMBDA entry :
        Bind([blocked |-> macroBlocks(macro, item.symbol, bias),
              valid |-> entry.ok], LAMBDA g :
        Bind(modeOutcome(force, ec.triggers, g), LAMBDA outcome :
        Bind([ast |-> writeLastState(mode, instId, ec.curState, dry, a.ast),
              evals |-> Append(a.evals, [inst |-> instId, mode |-> mode,
                                         curState |-> ec.curState,
                                         triggers |-> ec.triggers,
                                         lastState |-> lastStateMode,
                                         symbol |-> item.symbol, bias |-> bias,
                                         price |-> item.price,
                                         entryOk |-> g.valid,
                                         execReason |-> entry.reason,
                                         outcome |-> outcome])], LAMBDA a1 :
            IF outcome # "winner"
            THEN evalModes(item, modes, k + 1, dry, force, macro, lev, levels, s, a1)
            ELSE [winner |-> withLeverage(
                             [mode |-> mode, inst |-> instId, symbol |-> item.symbol,
                              bias |-> bias, triggers |-> ec.triggers,
                              curState |-> ec.curState,
                              warmup |-> levels["1h"].warmup,
                              macroBlocked |-> g.blocked, entryOk |-> g.valid,
                              price |-> item.price,
                              execReason |-> IF force THEN "" ELSE entry.reason,
                              entryLevel |-> IF force THEN 0 ELSE entry.level],
                             computeLeverageSuggestion(lev, bias, item.price, levels,
                                                       item, mode)),
                  ast |-> a1.ast, evals |-> a1.evals])))))

\* The item loop: results[k..]; acc = [ast, triggered, evals].
RECURSIVE alertItems(_, _, _, _, _, _, _, _, _, _)
alertItems(results, k, t, dry, force, modes, macro, lev, ser, acc) ==
    IF k > Len(results) THEN acc
    ELSE
    LET item == results[k]
        rest(a) == alertItems(results, k + 1, t, dry, force, modes, macro, lev, ser, a)
    IN  IF ~item.ok THEN rest(acc)
        ELSE IF onCooldown(force, acc.ast.lastSentAt[item.instId], t) THEN rest(acc)
        ELSE
        Bind(computeLevelsFromSeries(ser[item.instId]), LAMBDA levels :
            IF warmupGate(force, levels) THEN rest(acc)
            ELSE
            Bind(evalModes(item, modes, 1, dry, force, macro, lev, levels,
                           ser[item.instId], [ast |-> acc.ast, evals |-> acc.evals]),
                 LAMBDA r :
                IF r.winner.mode = ""
                THEN Bind([acc EXCEPT !.ast = r.ast, !.evals = r.evals], rest)
                ELSE Bind([ast |-> writeLastSentAt(item.instId, t, dry, r.ast),
                           triggered |-> Append(acc.triggered, r.winner),
                           evals |-> r.evals], rest)))

Heartbeat(t, ok, stage, sent, n) ==
    [ts |-> t, ok |-> ok, stage |-> stage, sent |-> sent, triggered_count |-> n]

OkInsts(results) == {results[k].instId : k \in {j \in DOMAIN results : results[j].ok}}
\* The instruments for which the derivation request went to the market source.
MarketCalls(results) ==
    {results[k].instId : k \in {j \in DOMAIN results : results[j].okxCalled}}
WinnerInsts(triggered) == {triggered[k].inst : k \in DOMAIN triggered}

\* handler, after authentication.  req = [symbols, quotes, modesRaw, dry,
\* force, fault]; fault names what fails during the run: "multi_failed" (the
\* derivation request does not answer ok), "exception" (a store read throws
\* at the top of the item loop), "telegram_failed" (the notifier answers not
\* ok), "telegram_throws" (the request to the notifier is rejected: fetch
\* throws inside sendTelegram and the handler's catch takes over), or "none".
\* The result is the store after the run and what the run did; run.notifier
\* tells how the call of the notifier ended ("none" without one).
alertHandler(req, t, kv, ast, hb, tg) ==
    LET dry == req.dry
        force == req.force
        modes == requestModes(req.modesRaw)
        base == [handler |-> "alert", now |-> t, dry |-> dry, force |-> force,
                 modes |-> modes, modesRaw |-> req.modesRaw, items |-> {},
                 triggered |-> <<>>, evals |-> <<>>,
                 notified |-> {}, marketCalls |-> {}, notifier |-> "none"]
    IN  IF req.fault = "multi_failed"
        THEN [kv |-> kv, ast |-> ast, tg |-> tg,
              hb |-> writeHeartbeat(Heartbeat(t, FALSE, "multi_fetch_failed", FALSE, 0), dry, hb),
              run |-> base @@ [status |-> "multi_fetch_failed"]]
        ELSE
        Bind(multiHandler(req.symbols, t, req.quotes, TRUE, kv), LAMBDA m :
            IF req.fault = "exception"
            THEN [kv |-> m.kv, ast |-> ast, tg |-> tg,
                  hb |-> writeHeartbeat(Heartbeat(t, FALSE, "handler_exception", FALSE, 0), dry, hb),
                  run |-> [base EXCEPT !.items = OkInsts(m.results),
                                       !.marketCalls = MarketCalls(m.results)]
                          @@ [status |-> "handler_exception"]]
            ELSE
            Bind(computeBtcMacro(m.results), LAMBDA macro :
            Bind(alertItems(m.results, 1, t, dry, force, modes, macro, req.leverage,
                            m.kv.series,
                            [ast |-> ast, triggered |-> <<>>, evals |-> <<>>]), LAMBDA acc :
            LET n == Len(acc.triggered)
                done == [base EXCEPT !.items = OkInsts(m.results),
                                     !.marketCalls = MarketCalls(m.results),
                                     !.triggered = acc.triggered, !.evals = acc.evals]
            IN  IF ~force /\ n = 0
                THEN [kv |-> m.kv, ast |-> acc.ast, tg |-> tg,
                      hb |-> writeHeartbeat(Heartbeat(t, TRUE, "", FALSE, 0), dry, hb),
                      run |-> done @@ [status |-> "no_alert"]]
                ELSE IF dry
                THEN [kv |-> m.kv, ast |-> acc.ast, tg |-> tg,
                      hb |-> writeHeartbeat(Heartbeat(t, TRUE, "", FALSE, n), dry, hb),
                      run |-> done @@ [status |-> "ok"]]
                ELSE IF req.fault = "telegram_throws"
                THEN [kv |-> m.kv, ast |-> acc.ast,
                      tg |-> Append(tg, [ok |-> FALSE, ts |-> t,
                                         insts |-> WinnerInsts(acc.triggered)]),
                      hb |-> writeHeartbeat(Heartbeat(t, FALSE, "handler_exception", FALSE, 0), dry, hb),
                      run |-> [done EXCEPT !.notifier = "threw"]
                              @@ [status |-> "handler_exception"]]
                ELSE IF req.fault = "telegram_failed"
                THEN [kv |-> m.kv, ast |-> acc.ast,
                      tg |-> Append(tg, [ok |-> FALSE, ts |-> t,
                                         insts |-> WinnerInsts(acc.triggered)]),
                      hb |-> writeHeartbeat(Heartbeat(t, FALSE, "telegram_failed", FALSE, n), dry, hb),
                      run |-> [done EXCEPT !.notifier = "not_ok"]
                              @@ [status |-> "telegram_failed"]]
                ELSE [kv |-> m.kv, ast |-> acc.ast,
                      tg |-> Append(tg, [ok |-> TRUE, ts |-> t,
                                         insts |-> WinnerInsts(acc.triggered)]),
                      hb |-> writeHeartbeat(Heartbeat(t, TRUE, "", TRUE, n), dry, hb),
                      run |-> [done EXCEPT !.notified = WinnerInsts(acc.triggered),
                                           !.notifier = "ok"]
                              @@ [status |-> "ok"]])))

----------------------------------------------------------------------------
(* Initial states *)

StartNow == StartBucket * BUCKET_MS
TickSteps == {4 * 60000, 16 * 60000}

\* A history of n points in the n buckets up to lastB, as n earlier
\* derivation runs at the bucket boundaries leave it; prices[k] is the price
\* k points before the newest (the base price where prices says nothing).
SeedSeries(n, lastB, base, prices, oi) ==
    [k \in 1..n |->
        Point(lastB - n + k, (lastB - n + k) * BUCKET_MS,
              IF (n - k) \in DOMAIN prices THEN prices[n - k] ELSE base, 1, oi)]

NoSeries == [i \in Insts |-> <<>>]
LastBucketOf(ser) == [i \in Insts |-> IF ser[i] = <<>> THEN NoNum ELSE ser[i][Len(ser[i])].b]

InitHist(ser) ==
    [runs |-> 0, ticks |-> 0, writes |-> <<>>,
     maxRunNow |-> LET tss == {IF ser[i] = <<>> THEN 0 ELSE ser[i][Len(ser[i])].ts : i \in Insts}
                   IN  CHOOSE m \in tss : \A x \in tss : x <= m,
     regressed |-> FALSE,
     lastNotif |-> [i \in Insts |-> NoNum],
     prevNotif |-> [i \in Insts |-> NoNum],
     prev |-> [handler |-> "none"]]

InitWith(ser) ==
    /\ now = StartNow
    /\ snap = [k \in {} |-> 0]
    /\ instmap = [b \in Bases |-> ""]
    /\ instList = FALSE
    /\ series = ser
    /\ lastBucket = LastBucketOf(ser)
    /\ lastState = [m \in {"scalp", "swing", "build"} |-> [i \in Insts |-> ""]]
    /\ lastState15m = [i \in Insts |-> ""]
    /\ lastSentAt = [i \in Insts |-> NoNum]
    /\ heartbeat = <<>>
    /\ telegram = <<>>
    /\ run = [handler |-> "none"]
    /\ hist = InitHist(ser)

----------------------------------------------------------------------------
(* Clock *)

Tick ==
    /\ hist.ticks < MaxTicks
    /\ \E d \in TickSteps : now' = now + d
    /\ hist' = [hist EXCEPT !.ticks = @ + 1]
    /\ UNCHANGED <<kvData, kvAlert, telegram, run>>

\* The wall clock a run reads is not monotonic across hosts: any of a few
\* instants around the start bucket, in any order.
ClockTimes ==
    {(StartBucket - 1) * BUCKET_MS, StartBucket * BUCKET_MS,
     StartBucket * BUCKET_MS + 60000, (StartBucket + 1) * BUCKET_MS}

ClockSet ==
    /\ hist.ticks < MaxTicks
    /\ \E t \in ClockTimes \ {now} : now' = t
    /\ hist' = [hist EXCEPT !.ticks = @ + 1]
    /\ UNCHANGED <<kvData, kvAlert, telegram, run>>

----------------------------------------------------------------------------
(* GET /api/snapshot *)

SnapshotSymbolLists ==
    {<<"ETHUSDT">>, <<"ETHUSD", "ETHUSDT">>, <<"XYZUSDT", "BTCUSDT">>, <<"BTCUSDT", "ETHUSDT">>}

\* At most one fetch of a request is rejected: the market fetch of one symbol
\* or the listing fetch.
ThrowSets(symbols) == {{}} \cup {{symbols[k]} : k \in DOMAIN symbols} \cup {{"listing"}}
SnapshotQuotes == {NoQuote, Quote(1000, 500), Quote(1010, 505)}

QuotesFor(symbols, choices) ==
    {[s \in Symbols |-> IF s \in Range(symbols) THEN f[s] ELSE NoQuote] :
        f \in [Range(symbols) -> choices \cup {NoQuote}]}

SnapshotRun ==
    /\ hist.runs < MaxRuns
    /\ \E symbols \in SnapshotSymbolLists, listOk \in BOOLEAN :
       \E quotes \in QuotesFor(symbols, SnapshotQuotes) :
       \E throws \in ThrowSets(symbols) :
       \E landed \in (IF throws = {} THEN {TRUE} ELSE BOOLEAN) :
       \E r \in {snapshotHandler(symbols, now, quotes, listOk,
                      [instmap |-> instmap, instList |-> instList,
                       snap |-> snap, writes |-> <<>>, calls |-> <<>>],
                      throws, landed)} :
              /\ snap' = r.sk.snap
              /\ instmap' = r.sk.instmap
              /\ instList' = r.sk.instList
              /\ run' = [handler |-> "snapshot", now |-> now, symbols |-> symbols,
                         status |-> r.status, results |-> r.results,
                         writes |-> r.sk.writes, calls |-> r.calls,
                         listing |-> ListingOutcome(listOk, throws),
                         before |-> instmap]
              /\ hist' = [hist EXCEPT !.runs = @ + 1, !.writes = @ \o r.sk.writes]
    /\ UNCHANGED <<now, series, lastBucket, kvAlert, telegram>>

InitSnapshot == InitWith(NoSeries)
NextSnapshot == Tick \/ SnapshotRun
SpecSnapshot == InitSnapshot /\ [][NextSnapshot]_vars

----------------------------------------------------------------------------
(* GET /api/multi *)

MultiSymbolLists == {<<"ETHUSDT">>, <<"XYZUSDT", "BTCUSDT">>}
MultiQuotes == {NoQuote, Quote(1000, 500), Quote(1010, 505)}

MultiRun ==
    /\ hist.runs < MaxRuns
    /\ \E symbols \in MultiSymbolLists, listOk \in BOOLEAN :
       \E quotes \in QuotesFor(symbols, MultiQuotes) :
       \E r \in {multiHandler(symbols, now, quotes, listOk, KvOfState)} :
              /\ instmap' = r.kv.instmap
              /\ instList' = r.kv.instList
              /\ series' = r.kv.series
              /\ lastBucket' = r.kv.lastBucket
              /\ run' = [handler |-> "multi", now |-> now, symbols |-> symbols,
                         results |-> r.results]
    /\ hist' = [hist EXCEPT !.runs = @ + 1,
                            !.maxRunNow = Max2(@, now),
                            !.regressed = @ \/ now < hist.maxRunNow]
    /\ UNCHANGED <<now, snap, kvAlert, telegram>>

\* A full day of history (and one point short of it) for ETH, or none.
MultiSeeds ==
    {NoSeries,
     [NoSeries EXCEPT !["ETH-USDT-SWAP"] =
         SeedSeries(SERIES_POINTS_24H - 1, StartBucket - 1, 1000, <<>>, 500)]}

InitMulti == \E ser \in MultiSeeds : InitWith(ser)
NextMulti == ClockSet \/ MultiRun
SpecMulti == InitMulti /\ [][NextMulti]_vars

----------------------------------------------------------------------------
(* GET /api/test-telegram and the gateway without the evaluator *)

\* handler of api/test-telegram.js: no authentication; with the bot token and
\* the chat id configured it posts a message to the chat and answers 200
\* whatever Telegram says (tgOk); without them it answers 500.
testTelegramHandler(envOk, tgOk, t, tg) ==
    IF ~envOk
    THEN [tg |-> tg, run |-> [handler |-> "test-telegram", now |-> t, status |-> "500"]]
    ELSE [tg |-> Append(tg, [ok |-> tgOk, ts |-> t, insts |-> {}]),
          run |-> [handler |-> "test-telegram", now |-> t, status |-> "200"]]

TestTelegramRun ==
    /\ hist.runs < MaxRuns
    /\ \E envOk \in BOOLEAN, tgOk \in BOOLEAN :
       \E r \in {testTelegramHandler(envOk, tgOk, now, telegram)} :
              /\ telegram' = r.tg
              /\ run' = r.run
    /\ hist' = [hist EXCEPT !.runs = @ + 1]
    /\ UNCHANGED <<now, kvData, kvAlert>>

\* The ingestor, the derivation engine and the test endpoint side by side.
InitGateway == InitWith(NoSeries)
NextGateway == Tick \/ SnapshotRun \/ MultiRun \/ TestTelegramRun
SpecGateway == InitGateway /\ [][NextGateway]_vars

----------------------------------------------------------------------------
(* GET /api/alert *)

\* ETH: four hours of history at 10000 with one print of 10200 forty-five
\* minutes back, open interest 500.  BTC: four flat hours at 10000, open
\* interest 1000.
EthSeed == SeedSeries(levelWindow4h, StartBucket - 1, 10000, (9 :> 10200), 500)
BtcSeed == SeedSeries(levelWindow4h, StartBucket - 1, 10000, <<>>, 1000)
\* LDO: four hours at 1000 with 1040 fifty-five minutes back and 1030 as the
\* newest print, open interest 500.
LdoSeed == SeedSeries(levelWindow4h, StartBucket - 1, 1000, (0 :> 1030) @@ (11 :> 1040), 500)
\* SOL: listed fifty minutes ago, ten flat points at 100, open interest 50.
SolSeed == SeedSeries(levelWindow1h - 2, StartBucket - 1, 100, <<>>, 50)
AlertSeries ==
    [NoSeries EXCEPT !["ETH-USDT-SWAP"] = EthSeed, !["BTC-USDT-SWAP"] = BtcSeed,
                     !["LDO-USDT-SWAP"] = LdoSeed, !["SOL-USDT-SWAP"] = SolSeed]

\* Market answers.  ETH: flat; a quiet uptick (0.07 %); a momentum uptick
\* (0.14 %, OI +0.2 %); flat with open interest gone to zero; a down move with
\* rising OI; no answer.  BTC: +3 % with OI +1 % (bull expansion), or flat.
EthFlat == Quote(10000, 500)
EthQuiet == Quote(10007, 500)
EthMomentum == Quote(10014, 501)
EthZeroOi == Quote(10000, 0)
EthShort == Quote(9985, 505)
BtcBull == Quote(10300, 1010)
BtcFlat == Quote(10000, 1000)
SolQuote == Quote(100, 50)
\* ETH again: a dip under the low of the hour with flat OI; a lift of 0.12 %
\* over 10000 with OI +0.6 %; a print above the high of the hour.
EthDip == Quote(9990, 500)
EthLift == Quote(10012, 503)
EthBreakout == Quote(10210, 503)
\* ETH: a bounce off the 1h low, +0.14 % in 5m with OI down 0.2 %.
EthBounce == Quote(10014, 499)
\* BTC: flat with OI up 1 %; a drop under the flat hour.
BtcOiUp == Quote(10000, 1010)
BtcDrop == Quote(9900, 1010)
\* LDO: a rejection just under the 1h high (-0.19 % in 5m, below the price of
\* an hour ago) with open interest up 1 %.
LdoShort == Quote(1028, 505)

QuoteMap(btc, eth, sol) ==
    [sym \in Symbols |-> IF sym = "BTCUSDT" THEN btc
                         ELSE IF sym = "ETHUSDT" THEN eth
                         ELSE IF sym = "SOLUSDT" THEN sol
                         ELSE NoQuote]
QuoteMapLdo(btc, ldo) ==
    [QuoteMap(btc, NoQuote, NoQuote) EXCEPT !["LDOUSDT"] = ldo]

AlertModesRaw == {<<"swing">>, <<"build">>, <<"swing", "scalp">>}
\* mode=build,fast,swing,scalp: every mode, out of order, and a name that is
\* not a mode.
AllModesRaw == <<"build", "fast", "swing", "scalp">>
Faults == {"multi_failed", "exception", "telegram_failed", "telegram_throws"}

Request(symbols, quotes, modesRaw, dry, force, fault) ==
    [symbols |-> symbols, quotes |-> quotes, modesRaw |-> modesRaw,
     dry |-> dry, force |-> force, fault |-> fault, leverage |-> DefaultLeverage]

AlertRequests ==
    {Request(<<"ETHUSDT">>, QuoteMap(NoQuote, q, NoQuote), m, d, f, "none") :
        q \in {EthFlat, EthQuiet, EthMomentum, EthZeroOi, NoQuote},
        m \in AlertModesRaw, d \in BOOLEAN, f \in BOOLEAN}
    \cup
    {Request(<<"ETHUSDT">>, QuoteMap(NoQuote, EthMomentum, NoQuote), <<"swing">>, d, FALSE, x) :
        d \in BOOLEAN, x \in Faults}
    \cup
    {Request(<<"BTCUSDT", "ETHUSDT">>, QuoteMap(b, EthShort, NoQuote), <<"swing">>, FALSE, f, "none") :
        b \in {BtcBull, BtcFlat}, f \in BOOLEAN}
    \cup
    {Request(<<"SOLUSDT">>, QuoteMap(NoQuote, NoQuote, SolQuote), <<"swing">>, FALSE, f, "none") :
        f \in BOOLEAN}
    \cup
    {Request(<<"BTCUSDT", "LDOUSDT">>, QuoteMapLdo(b, LdoShort), <<"swing">>, FALSE, f, "none") :
        b \in {BtcBull, BtcFlat}, f \in BOOLEAN}
    \cup
    {Request(<<"ETHUSDT">>, QuoteMap(NoQuote, EthMomentum, NoQuote), AllModesRaw, FALSE, f, "none") :
        f \in BOOLEAN}
    \cup
    {Request(<<"ETHUSDT">>, QuoteMap(NoQuote, q, NoQuote), <<"scalp">>, FALSE, FALSE, "none") :
        q \in {EthDip, EthLift, EthBreakout}}
    \cup
    {Request(<<"ETHUSDT">>, QuoteMap(NoQuote, EthBounce, NoQuote), <<"swing">>, FALSE, FALSE, "none")}
    \cup
    {Request(<<"BTCUSDT">>, QuoteMap(q, NoQuote, NoQuote), <<"swing">>, FALSE, FALSE, "none") :
        q \in {BtcOiUp, BtcDrop}}

\* What a request presents, and the secret the deployment has configured
\* (ALERT_SECRET, "" when unset).
Secret == "s3cret"
Credential(secret, scheme, token, key) ==
    [secret |-> secret, authorization |-> [scheme |-> scheme, token |-> token], key |-> key]
KeyCredential == Credential(Secret, "", "", Secret)
Credentials ==
    {KeyCredential,
     Credential(Secret, "Bearer", Secret, ""),
     Credential(Secret, "bearer", Secret, "wrong"),
     Credential(Secret, "Bearer", "wrong", Secret),
     Credential(Secret, "Basic", Secret, ""),
     Credential(Secret, "", "", ""),
     Credential(Secret, "", "", "wrong"),
     Credential("", "", "", "")}

\* The requests sent with each credential: all of them with the query key,
\* two of them with the others.
OtherRequests ==
    {Request(<<"ETHUSDT">>, QuoteMap(NoQuote, EthMomentum, NoQuote), <<"swing">>, d, FALSE, "none") :
        d \in BOOLEAN}
RequestsWith(cred) == IF cred = KeyCredential THEN AlertRequests ELSE OtherRequests

AlertRun ==
    /\ hist.runs < MaxRuns
    /\ \E cred \in Credentials :
       /\ authorized(cred.secret, cred.authorization, cred.key)
       /\ \E req \in RequestsWith(cred) :
             \E r \in {alertHandler(req, now, KvOfState, AlertOfState, heartbeat, telegram)} :
                    /\ instmap' = r.kv.instmap
                    /\ instList' = r.kv.instList
                    /\ series' = r.kv.series
                    /\ lastBucket' = r.kv.lastBucket
                    /\ lastState' = r.ast.lastState
                    /\ lastState15m' = r.ast.lastState15m
                    /\ lastSentAt' = r.ast.lastSentAt
                    /\ heartbeat' = r.hb
                    /\ telegram' = r.tg
                    /\ run' = r.run @@ [cred |-> cred]
                    /\ hist' = [hist EXCEPT
                          !.runs = @ + 1,
                          !.prev = run,
                          !.prevNotif = [i \in Insts |->
                              IF i \in r.run.notified THEN hist.lastNotif[i] ELSE @[i]],
                          !.lastNotif = [i \in Insts |->
                              IF i \in r.run.notified THEN now ELSE @[i]]]
    /\ UNCHANGED <<now, snap>>

\* A request that fails the check: 401 before any parameter is read.
AlertUnauthorized ==
    /\ hist.runs < MaxRuns
    /\ \E cred \in Credentials :
       /\ ~authorized(cred.secret, cred.authorization, cred.key)
       /\ run' = [handler |-> "alert", now |-> now, dry |-> FALSE, force |-> FALSE,
                  modes |-> <<"scalp">>, modesRaw |-> <<>>, items |-> {},
                  triggered |-> <<>>, evals |-> <<>>,
                  notified |-> {}, marketCalls |-> {}, notifier |-> "none",
                  status |-> "unauthorized",
                  cred |-> cred]
    /\ hist' = [hist EXCEPT !.runs = @ + 1, !.prev = run]
    /\ UNCHANGED <<now, kvData, kvAlert, telegram>>

\* The store as earlier runs left it: instruments resolved and cached.
Init ==
    /\ now = StartNow
    /\ snap = [k \in {} |-> 0]
    /\ instmap = [b \in Bases |-> IF b = "XYZ" THEN "" ELSE b \o "-USDT-SWAP"]
    /\ instList = TRUE
    /\ series = AlertSeries
    /\ lastBucket = LastBucketOf(AlertSeries)
    /\ lastState = [m \in Modes |-> [i \in Insts |-> ""]]
    /\ lastState15m = [i \in Insts |-> ""]
    /\ lastSentAt = [i \in Insts |-> NoNum]
    /\ heartbeat = <<>>
    /\ telegram = <<>>
    /\ run = [handler |-> "none"]
    /\ hist = InitHist(AlertSeries)

\* The clock between evaluator runs: 5 or 15 minutes at a time.
AlertTick ==
    /\ hist.runs < MaxRuns
    /\ \E d \in {BUCKET_MS, 3 * BUCKET_MS} :
          /\ now + d <= StartNow + MaxElapsed * BUCKET_MS
          /\ now' = now + d
    /\ UNCHANGED <<kvData, kvAlert, telegram, run, hist>>

Next == AlertTick \/ AlertRun \/ AlertUnauthorized
Spec == Init /\ [][Next]_vars

----------------------------------------------------------------------------
(* Properties of the ingestor and of the derivation engine *)

Last(s) == s[Len(s)]
Occurrences(s, x) == Cardinality({n \in DOMAIN s : s[n] = x})
StrictlyIncreasing(s) == \A k \in 1..(Len(s) - 1) : s[k].b < s[k + 1].b
MultiStep == run'.handler = "multi" /\ hist'.runs # hist.runs
DerivedOk(results, i) == \E k \in DOMAIN results : results[k].ok /\ results[k].instId = i

\* C4: over sequential ingestor runs every key snap5m:{inst}:{bucket} is
\* written at most once (later runs in the bucket leave it alone, failed
\* fetches write nothing).
C4_SnapWrittenAtMostOnce ==
    \A n \in DOMAIN hist.writes : Occurrences(hist.writes, hist.writes[n]) <= 1

\* C5: a derivation run that finds lastBucket:{inst} equal to its own bucket
\* changes neither series5m:{inst} nor lastBucket:{inst}; a run that derives
\* the instrument in a bucket other than lastBucket:{inst} appends exactly
\* one point, of its bucket, and sets lastBucket:{inst} to that bucket.  So
\* runs one after the other in one bucket append one point in total and set
\* lastBucket once.
C5_OnePointPerBucket ==
    [][MultiStep =>
        \A i \in Insts :
           /\ lastBucket[i] = Bucket(now) =>
                 series'[i] = series[i] /\ lastBucket'[i] = lastBucket[i]
           /\ (lastBucket[i] # Bucket(now) /\ DerivedOk(run'.results, i)) =>
                 /\ lastBucket'[i] = Bucket(now)
                 /\ series'[i] # <<>>
                 /\ Last(series'[i]).b = Bucket(now)
                 /\ series'[i] = LRangeTail(Append(series[i], Last(series'[i])),
                                            SERIES_POINTS_24H)
           /\ ~DerivedOk(run'.results, i) =>
                 series'[i] = series[i] /\ lastBucket'[i] = lastBucket[i]]_vars

\* A second run in the bucket of the first: the instrument is derived, its
\* newest point is the one the earlier run stored.
C5_Witness ==
    /\ run.handler = "multi"
    /\ hist.runs = 2
    /\ \E i \in Insts :
          /\ DerivedOk(run.results, i)
          /\ lastBucket[i] = Bucket(run.now)
          /\ series[i] # <<>>
          /\ Last(series[i]).b = Bucket(run.now)
          /\ Last(series[i]).ts < run.now
          /\ Occurrences([k \in DOMAIN series[i] |-> series[i][k].b], Bucket(run.now)) = 1

C7_TrimKeepsNewest ==
    [][\A i \in Insts :
          /\ Len(series[i]) <= SERIES_POINTS_24H
          /\ Len(series'[i]) <= SERIES_POINTS_24H
          /\ series'[i] # series[i] =>
                /\ series'[i] # <<>>
                /\ series'[i] = LRangeTail(Append(series[i], Last(series'[i])),
                                           SERIES_POINTS_24H)
          /\ (MultiStep /\ DerivedOk(run'.results, i) /\ lastBucket[i] # Bucket(now)) =>
                /\ series'[i] # <<>>
                /\ Last(series'[i]).b = Bucket(now)
                /\ Last(series'[i]).ts = now]_vars

\* The append that took a 288-point series past the limit: the oldest seeded
\* point is gone, the two appended points are the newest.
C7_Witness ==
    \E i \in Insts :
       /\ Len(series[i]) = SERIES_POINTS_24H
       /\ series[i][1].b = StartBucket - SERIES_POINTS_24H + 2
       /\ Last(series[i]).b = StartBucket + 1
       /\ series[i][SERIES_POINTS_24H - 1].b = StartBucket

----------------------------------------------------------------------------
(* Properties of the alert evaluator *)

AlertStep == run'.handler = "alert" /\ hist'.runs # hist.runs
cooldownMs == cooldownMinutes * 60000
EvalsOf(r, i) == {k \in DOMAIN r.evals : r.evals[k].inst = i}
\* No detection trigger fired for instrument i in run r.
Quiet(r, i) == \A k \in EvalsOf(r, i) : r.evals[k].triggers = {}

\* C1: a notification of an instrument that was not forced comes at least
\* cooldownMs after the previous notification of that instrument, whatever
\* the modes of the two.
C1_CooldownBetweenNotifications ==
    run.handler = "alert" =>
        \A i \in run.notified :
            (~run.force /\ hist.prevNotif[i] # NoNum) =>
                run.now - hist.prevNotif[i] >= cooldownMs

\* A non-forced notification of an instrument a full cooldown after the
\* previous one, which went out under another mode.
C1_Witness ==
    /\ run.handler = "alert"
    /\ ~run.force
    /\ hist.prev.handler = "alert"
    /\ \E i \in run.notified :
          /\ i \in hist.prev.notified
          /\ hist.prevNotif[i] # NoNum
          /\ run.now - hist.prevNotif[i] >= cooldownMs
          /\ \E a \in DOMAIN run.triggered, b \in DOMAIN hist.prev.triggered :
                /\ run.triggered[a].inst = i
                /\ hist.prev.triggered[b].inst = i
                /\ run.triggered[a].mode # hist.prev.triggered[b].mode

\* C2: an evaluator run with dry=1 writes no alert:* key (lastState,
\* lastState15m, lastSentAt, heartbeat) and does not call the notifier, on
\* whichever path it ends.
C2_DryRunWritesNoAlertKey ==
    [][(AlertStep /\ run'.dry) =>
          /\ lastState' = lastState
          /\ lastState15m' = lastState15m
          /\ lastSentAt' = lastSentAt
          /\ heartbeat' = heartbeat
          /\ telegram' = telegram]_vars

\* A dry run that found a winner and rendered its message.
C2_Witness ==
    /\ run.handler = "alert"
    /\ run.dry
    /\ run.status = "ok"
    /\ run.triggered # <<>>
    /\ heartbeat = <<>>
    /\ telegram = <<>>
    /\ \A i \in Insts : lastSentAt[i] = NoNum

\* C3: an evaluator run with dry=1 modifies no series5m:{inst} and no
\* lastBucket:{inst} key.
C3_DryRunLeavesSeries ==
    [][(AlertStep /\ run'.dry) => (series' = series /\ lastBucket' = lastBucket)]_vars

\* C8 as stated: a forced evaluation of a symbol that fails the macro gate,
\* the 1h warmup gate or the mode's entry-validity rules produces no winner.
C8_ForceStillDenied ==
    (run.handler = "alert" /\ run.force) =>
        \A k \in DOMAIN run.triggered :
            /\ ~run.triggered[k].warmup
            /\ ~run.triggered[k].macroBlocked
            /\ run.triggered[k].entryOk

\* C8, amended: with force=1 every gate is bypassed: each symbol the
\* derivation engine returned ok wins under the first requested mode in
\* priority order, and is notified unless the run is dry or the notifier fails.
C8_ForceBypassesEveryGate ==
    (run.handler = "alert" /\ run.force /\ run.status \in {"ok", "telegram_failed"}) =>
        /\ WinnerInsts(run.triggered) = run.items
        /\ \A k \in DOMAIN run.triggered : run.triggered[k].mode = run.modes[1]
        /\ (run.status = "ok" /\ ~run.dry) => run.notified = run.items

\* A forced run notifying a short on an alt while BTC is in bull expansion,
\* with no valid entry either.
C8_Witness ==
    /\ run.handler = "alert"
    /\ run.force
    /\ \E k \in DOMAIN run.triggered :
          /\ run.triggered[k].macroBlocked
          /\ ~run.triggered[k].entryOk
          /\ run.triggered[k].inst \in run.notified

\* C9: in a non-forced run a winner has at least one detection trigger, the
\* ones evaluated for its mode, and an instrument for which no trigger fired
\* in any evaluated mode is neither a winner nor notified.
C9_NotifiedOnlyIfTriggered ==
    (run.handler = "alert" /\ ~run.force) =>
        /\ \A k \in DOMAIN run.triggered :
              /\ run.triggered[k].triggers # {}
              /\ run.triggered[k].triggers \subseteq
                    {"setup_flip", "momentum_confirm", "positioning_shock"}
              /\ \E j \in EvalsOf(run, run.triggered[k].inst) :
                    /\ run.evals[j].mode = run.triggered[k].mode
                    /\ run.evals[j].triggers = run.triggered[k].triggers
        /\ \A i \in Insts :
              Quiet(run, i) => (i \notin WinnerInsts(run.triggered) /\ i \notin run.notified)

\* A non-forced notification.
C9_Witness ==
    /\ run.handler = "alert"
    /\ ~run.force
    /\ run.notified # {}
    /\ \E k \in DOMAIN run.triggered : run.triggered[k].triggers # {}

\* C10 as stated: after a run with dry#1 and force=0, for an instrument for
\* which no trigger fired, lastState of every evaluated mode (and lastState15m
\* for swing/build) equals the instrument's current state.
C10_SeededWithCurrentState ==
    (run.handler = "alert" /\ ~run.dry /\ ~run.force) =>
        \A i \in run.items :
            Quiet(run, i) =>
                \A k \in EvalsOf(run, i) :
                    /\ lastState[run.evals[k].mode][i] = run.evals[k].curState
                    /\ run.evals[k].mode # "scalp" =>
                          lastState15m[i] = run.evals[k].curState

\* C10, amended: after a run with dry#1 and force=0, for an instrument for
\* which no trigger fired, lastState of every mode evaluated for it whose
\* current state is not "unknown" (and lastState15m for swing/build) equals
\* that state; and in any run a stored lastState that differs from the
\* current state fires setup_flip.
C10_SeededUnlessUnknown ==
    [][AlertStep =>
          \A k \in DOMAIN run'.evals :
             LET e == run'.evals[k]
             IN  /\ (lastState[e.mode][e.inst] # "" /\ e.curState # lastState[e.mode][e.inst])
                       => "setup_flip" \in e.triggers
                 /\ (~run'.dry /\ ~run'.force /\ Quiet(run', e.inst)
                     /\ e.curState # "unknown") =>
                       /\ lastState'[e.mode][e.inst] = e.curState
                       /\ e.mode # "scalp" => lastState15m'[e.inst] = e.curState]_vars

\* A quiet run seeded the state; the next run saw another state and fired
\* setup_flip against the seeded one.
C10_Witness ==
    /\ run.handler = "alert"
    /\ hist.prev.handler = "alert"
    /\ ~hist.prev.dry
    /\ ~hist.prev.force
    /\ hist.prev.status = "no_alert"
    /\ \E a \in DOMAIN run.evals, b \in DOMAIN hist.prev.evals :
          /\ run.evals[a].inst = hist.prev.evals[b].inst
          /\ run.evals[a].mode = hist.prev.evals[b].mode
          /\ hist.prev.evals[b].triggers = {}
          /\ run.evals[a].lastState = hist.prev.evals[b].curState
          /\ run.evals[a].curState # run.evals[a].lastState
          /\ "setup_flip" \in run.evals[a].triggers

----------------------------------------------------------------------------
(* Properties of the components' boundaries *)

\* C11: the derivation engine makes no market-source call when it serves the
\* evaluator: an evaluator run goes to the market source for no instrument.
C11_NoMarketCallServingEvaluator ==
    run.handler = "alert" => run.marketCalls = {}

\* C12: an evaluator run in a bucket for which snap5m:{inst}:{bucket} has not
\* been written gets no ok item for that instrument, appends no point to its
\* series and neither evaluates nor notifies it.
C12_MissingSnapshotSkipsSymbol ==
    [][AlertStep =>
          \A i \in Insts :
             SnapKey(i, Bucket(now)) \notin DOMAIN snap =>
                /\ series'[i] = series[i]
                /\ lastBucket'[i] = lastBucket[i]
                /\ i \notin run'.items
                /\ i \notin WinnerInsts(run'.triggered)
                /\ i \notin run'.notified]_vars

\* C13: only the evaluator invokes the notifier: a run of any other handler
\* (ingestor, derivation engine, auxiliary endpoints) posts no message.
C13_OnlyEvaluatorNotifies ==
    [][(hist'.runs # hist.runs /\ run'.handler # "alert") => telegram' = telegram]_vars

\* C14: every key family has one writer.  A run of the derivation engine
\* writes no snap5m, instrument-map or instrument-list key and no alert key;
\* a run of the ingestor writes no series5m or lastBucket key and no alert
\* key; a run of the evaluator writes no snap5m, instrument-map or
\* instrument-list key.
C14_OneWriterPerKeyFamily ==
    [][/\ (hist'.runs # hist.runs /\ run'.handler = "multi") =>
             /\ snap' = snap /\ instmap' = instmap /\ instList' = instList
             /\ UNCHANGED kvAlert
       /\ (hist'.runs # hist.runs /\ run'.handler = "snapshot") =>
             /\ series' = series /\ lastBucket' = lastBucket
             /\ UNCHANGED kvAlert
       /\ (hist'.runs # hist.runs /\ run'.handler = "alert") =>
             /\ snap' = snap /\ instmap' = instmap /\ instList' = instList]_vars

----------------------------------------------------------------------------
(* Properties of the evaluator's authentication *)

\* The secret is presented in neither channel, or none is configured.
NotPresented(c) ==
    \/ c.secret = ""
    \/ (c.key # c.secret /\ bearerOf(c.authorization) # c.secret)

\* C15: an evaluator request whose secret is missing or wrong, or that
\* arrives when no secret is configured, is answered 401 and changes nothing:
\* no key of the store, no heartbeat, no derivation request, no message.
C15_UnauthorizedHasNoEffect ==
    [][(AlertStep /\ NotPresented(run'.cred)) =>
          /\ run'.status = "unauthorized"
          /\ run'.marketCalls = {}
          /\ UNCHANGED <<kvData, kvAlert, telegram>>]_vars

\* A request with a wrong key after a run that notified: what that run left
\* is all there is.
C15_Witness ==
    /\ run.handler = "alert"
    /\ run.status = "unauthorized"
    /\ run.cred.key = "wrong"
    /\ hist.prev.handler = "alert"
    /\ hist.prev.notified # {}
    /\ Len(telegram) = 1
    /\ Len(heartbeat) = 1
    /\ heartbeat[1].ts = hist.prev.now

\* C16 as stated: a request presenting the configured secret in either
\* channel, ?key or Authorization: Bearer, is authorized whatever the other
\* channel carries.
C16_EitherChannelAuthorizes ==
    (run.handler = "alert" /\ run.cred.secret # ""
       /\ (run.cred.key = run.cred.secret
           \/ bearerOf(run.cred.authorization) = run.cred.secret)) =>
        run.status # "unauthorized"

\* C16, amended: the credential of a request is its Bearer token when the
\* Authorization header carries a non-empty one, and its ?key otherwise; the
\* request is authorized exactly when a secret is configured and that
\* credential equals it.
C16_BearerTakesPrecedence ==
    run.handler = "alert" =>
        LET c == run.cred
            token == IF toLowerCase(c.authorization.scheme) = "bearer"
                     THEN c.authorization.token ELSE ""
            credential == IF token # "" THEN token ELSE c.key
        IN  (run.status # "unauthorized") <=> (c.secret # "" /\ credential = c.secret)

\* A request authorized by its Bearer token although its ?key is wrong, and
\* notified.
C16_Witness ==
    /\ run.handler = "alert"
    /\ run.status = "ok"
    /\ run.cred.authorization.token = run.cred.secret
    /\ run.cred.key = "wrong"
    /\ run.notified # {}

----------------------------------------------------------------------------
(* Properties of the batch ingestor *)

\* C17: a batch run of the ingestor answers with one entry per requested
\* symbol, in order: a failed symbol as its own {ok: false, error}, and every
\* other symbol as ok with its snapshot for the bucket in the store.
C17_FailureStaysPerSymbol ==
    (run.handler = "snapshot" /\ Len(run.symbols) > 1) =>
        /\ Len(run.results) = Len(run.symbols)
        /\ \A k \in DOMAIN run.results :
              /\ run.results[k].symbol = run.symbols[k]
              /\ ~run.results[k].ok => run.results[k].error # ""
              /\ run.results[k].ok =>
                    SnapKey(baseFromSymbolUSDT(run.symbols[k]) \o "-USDT-SWAP",
                            Bucket(run.now)) \in DOMAIN snap

----------------------------------------------------------------------------
(* Properties of the macro and warmup gates *)

\* BTC's 4h delta, as the derivation engine derives it from the stored
\* series, is in bull expansion.
BtcBullExpansion4h(ser) ==
    LET d4 == computeTfDeltas(ReadTail(ser["BTC-USDT-SWAP"]), "4h")
    IN  /\ d4.lean = "long"
        /\ ~d4.price_change_pct.nul /\ PctGe(d4.price_change_pct, btc4hPricePctMin)
        /\ ~d4.oi_change_pct.nul /\ PctGe(d4.oi_change_pct, btc4hOiPctMin)

Evaluated(r) == r.status \in {"no_alert", "ok", "telegram_failed"}

\* C19: a non-forced run produces no winner and no notification for an
\* instrument whose series holds fewer than 12 points, and evaluates no mode
\* for it (the warmup gate denies before the mode loop); with 12 points or
\* more the gate lets the instrument through: an ok item that is not on
\* cooldown has its modes evaluated.
C19_WarmupGateDenies ==
    [][(AlertStep /\ ~run'.force) =>
          \A i \in Insts :
             /\ Len(series'[i]) < levelWindow1h =>
                   /\ i \notin WinnerInsts(run'.triggered)
                   /\ i \notin run'.notified
                   /\ EvalsOf(run', i) = {}
             /\ (/\ Evaluated(run')
                 /\ i \in run'.items
                 /\ Len(series'[i]) >= levelWindow1h
                 /\ ~(lastSentAt[i] # NoNum /\ now - lastSentAt[i] < cooldownMs)) =>
                   EvalsOf(run', i) # {}]_vars

\* SOL with 11 points was denied by the gate in one run and, with the 12th
\* point, evaluated in the next.
C19_Witness ==
    /\ run.handler = "alert"
    /\ ~run.force
    /\ hist.prev.handler = "alert"
    /\ ~hist.prev.force
    /\ "SOL-USDT-SWAP" \in hist.prev.items
    /\ EvalsOf(hist.prev, "SOL-USDT-SWAP") = {}
    /\ Len(series["SOL-USDT-SWAP"]) = levelWindow1h
    /\ EvalsOf(run, "SOL-USDT-SWAP") # {}

----------------------------------------------------------------------------
(* Properties of the alert state *)

\* C20: alert:lastSentAt:{inst} never decreases: it changes only in an
\* evaluator run, to the timestamp of that run, which is not below the value
\* stored before; forced runs included.
C20_LastSentAtNeverDecreases ==
    [][\A i \in Insts :
          /\ lastSentAt'[i] >= lastSentAt[i]
          /\ lastSentAt'[i] # lastSentAt[i] =>
                (AlertStep /\ lastSentAt'[i] = now)]_vars

\* A forced run inside the cooldown window of an earlier notification
\* overwrote the timestamp with a later one.
C20_Witness ==
    /\ run.handler = "alert"
    /\ run.force
    /\ \E i \in run.notified :
          /\ hist.prevNotif[i] # NoNum
          /\ run.now > hist.prevNotif[i]
          /\ run.now - hist.prevNotif[i] < cooldownMs
          /\ lastSentAt[i] = run.now

----------------------------------------------------------------------------
(* Properties of the mode loop *)

\* The mode evaluations of instrument i in run r, in the order they were made.
EvalSeq(r, i) == SelectSeq(r.evals, LAMBDA e : e.inst = i)

\* C21: the modes of a run are the requested mode names (scalp when none is
\* valid) in the order scalp, swing, build, whatever the order of the request;
\* for every instrument the modes are evaluated in that order, a mode that
\* does not pass is followed by the next one, the first mode that passes is
\* the winner, and no mode is evaluated after the winner.
C21_FixedModeOrder ==
    (run.handler = "alert" /\ run.status # "unauthorized") =>
        LET order == <<"scalp", "swing", "build">>
            asked == {m \in Range(run.modesRaw) : m \in Range(order)}
            enabled == IF asked = {} THEN {"scalp"} ELSE asked
            expected == SelectSeq(order, LAMBDA m : m \in enabled)
        IN  /\ run.modes = expected
            /\ \A i \in Insts :
                  LET ev == EvalSeq(run, i)
                  IN  /\ Len(ev) <= Len(expected)
                      /\ \A k \in DOMAIN ev :
                            /\ ev[k].mode = expected[k]
                            /\ ev[k].outcome = "winner" => k = Len(ev)
                            /\ (ev[k].outcome # "winner" /\ k < Len(expected)) => k < Len(ev)
                      /\ \A j \in DOMAIN run.triggered :
                            run.triggered[j].inst = i =>
                               /\ ev # <<>>
                               /\ ev[Len(ev)].outcome = "winner"
                               /\ ev[Len(ev)].mode = run.triggered[j].mode
                      /\ (ev # <<>> /\ ev[Len(ev)].outcome = "winner") =>
                            i \in WinnerInsts(run.triggered)

\* mode=build,fast,swing,scalp, not forced: scalp was evaluated first and did
\* not pass, swing passed and was notified, build was not evaluated.
C21_Witness ==
    /\ run.handler = "alert"
    /\ ~run.force
    /\ run.modesRaw = AllModesRaw
    /\ run.modes = <<"scalp", "swing", "build">>
    /\ \E i \in run.notified :
          LET ev == EvalSeq(run, i)
          IN  /\ Len(ev) = 2
              /\ ev[1].mode = "scalp" /\ ev[1].outcome # "winner"
              /\ ev[2].mode = "swing" /\ ev[2].outcome = "winner"

----------------------------------------------------------------------------
(* Properties of the scalp entry *)

\* The 1h levels of a stored series: the extremes of its last 12 prices.
High1h(ser) == SeqMax(Prices(LRangeTail(ser, 12)))
Low1h(ser) == SeqMin(Prices(LRangeTail(ser, 12)))
\* The 15m OI change the derivation engine reports for a stored series.
Oi15Of(ser) == computeTfDeltas(ReadTail(ser), "15m").oi_change_pct
\* The 15m OI change is at least SHOCK_OI_MIN (0.50 %).
OiConfirms(ser) == ~Oi15Of(ser).nul /\ Oi15Of(ser).num >= 50 * Oi15Of(ser).den
\* The winner of instrument i in run r, if any.
WinnersOf(r, i) == {r.triggered[j] : j \in {n \in DOMAIN r.triggered : r.triggered[n].inst = i}}

\* C22: in a non-forced run, a scalp evaluation with long bias, a fired
\* detection trigger, warm 1h levels, 15m OI change >= SHOCK_OI_MIN and a
\* current price above the 1h high makes the symbol a winner: long, by
\* breakout, with an entry line citing the 1h high.
C22_ScalpBreakoutTriggers ==
    (run.handler = "alert" /\ ~run.force) =>
        \A k \in DOMAIN run.evals :
            LET e == run.evals[k]
                ser == series[e.inst]
            IN  (/\ e.mode = "scalp"
                 /\ e.bias = "long"
                 /\ e.triggers # {}
                 /\ Len(ser) >= 12
                 /\ OiConfirms(ser)
                 /\ e.price > High1h(ser)) =>
                    /\ e.outcome = "winner"
                    /\ \E w \in WinnersOf(run, e.inst) :
                          /\ w.mode = "scalp"
                          /\ w.bias = "long"
                          /\ w.execReason = "long_breakout"
                          /\ w.entryLevel = High1h(ser)

\* The low of the hour of points that precedes the last n points of a series:
\* the 1h low the last n points can go below.  (The low of the hour that
\* includes them is never above their minimum.)
Low1hBefore(ser, n) == SeqMin(Prices(LRangeTail(SubSeq(ser, 1, Len(ser) - n), 12)))
RecentMin(ser, n) == SeqMin(Prices(LRangeTail(ser, n)))

\* C23: in a non-forced run, a scalp evaluation with long bias and 15m OI
\* change >= SHOCK_OI_MIN, for a series whose last 3 points went below the 1h
\* low while the current price is back above it, makes the symbol a winner
\* with entry reason long_sweep_reclaim.
C23_SweepReclaimTriggers ==
    (run.handler = "alert" /\ ~run.force) =>
        \A k \in DOMAIN run.evals :
            LET e == run.evals[k]
                ser == series[e.inst]
            IN  (/\ e.mode = "scalp"
                 /\ e.bias = "long"
                 /\ e.triggers # {}
                 /\ Len(ser) >= 12 + 3
                 /\ OiConfirms(ser)
                 /\ RecentMin(ser, 3) < Low1hBefore(ser, 3)
                 /\ e.price > Low1hBefore(ser, 3)
                 /\ e.price <= High1h(ser)) =>
                    /\ e.outcome = "winner"
                    /\ \E w \in WinnersOf(run, e.inst) :
                          w.mode = "scalp" /\ w.execReason = "long_sweep_reclaim"

----------------------------------------------------------------------------
(* Properties of the swing and build entry *)

\* The 5m price change the derivation engine reports for a stored series.
P5Of(ser) == computeTfDeltas(ReadTail(ser), "5m").price_change_pct

\* The two entry paths of swing and build for a candidate of bias b at
\* price p, read off the stored series: the break beyond the 1h level, and
\* the reversal inside the B1 band with the 5m micro-confirm
\* (EDGE_PCT 0.15, REVERSAL_MIN 0.05 %).
BreakPath(b, p, ser) ==
    IF b = "long" THEN p > High1h(ser) ELSE p < Low1h(ser)
ReversalPath(b, p, ser) ==
    LET hi == High1h(ser)
        lo == Low1h(ser)
        p5 == P5Of(ser)
    IN  IF b = "long"
        THEN 100 * (p - lo) <= 15 * (hi - lo) /\ ~p5.nul /\ p5.num >= 5 * p5.den
        ELSE 100 * (hi - p) <= 15 * (hi - lo) /\ ~p5.nul /\ p5.num <= (0 - 5) * p5.den
\* The 15m OI change is not below SWING_MIN_OI_PCT (-0.50 %).
OiNotBelowMin(ser) == Oi15Of(ser).nul \/ Oi15Of(ser).num >= (0 - 50) * Oi15Of(ser).den

\* C24 as stated: in a non-forced run, a long or short candidate of swing or
\* build passes entry validity exactly when its 15m OI change is not below
\* SWING_MIN_OI_PCT and the break path or the reversal path holds.
C24_SwingEntryAsStated ==
    (run.handler = "alert" /\ ~run.force) =>
        \A k \in DOMAIN run.evals :
            LET e == run.evals[k]
                ser == series[e.inst]
            IN  (e.mode \in {"swing", "build"} /\ e.bias \in {"long", "short"}) =>
                    (e.entryOk <=>
                        /\ OiNotBelowMin(ser)
                        /\ BreakPath(e.bias, e.price, ser) \/ ReversalPath(e.bias, e.price, ser))

\* C24, amended: ... exactly when the 1h range is positive (hi > lo), its 15m
\* OI change is not below SWING_MIN_OI_PCT and the break path or the reversal
\* path holds; the break path is the reason given when both hold.
C24_SwingEntryNeedsRange ==
    (run.handler = "alert" /\ ~run.force) =>
        \A k \in DOMAIN run.evals :
            LET e == run.evals[k]
                ser == series[e.inst]
            IN  (e.mode \in {"swing", "build"} /\ e.bias \in {"long", "short"}) =>
                    /\ e.entryOk <=>
                          /\ High1h(ser) > Low1h(ser)
                          /\ OiNotBelowMin(ser)
                          /\ BreakPath(e.bias, e.price, ser) \/ ReversalPath(e.bias, e.price, ser)
                    /\ e.entryOk =>
                          e.execReason =
                             IF BreakPath(e.bias, e.price, ser)
                             THEN (IF e.bias = "long" THEN "break_above_1h_high"
                                   ELSE "break_below_1h_low")
                             ELSE (IF e.bias = "long" THEN "b1_reversal_long"
                                   ELSE "b1_reversal_short")

\* A swing long by reversal with the 15m OI change at -0.20 %: the price in
\* the low band of a 10000..10200 hour, +0.14 % in 5m; notified.
C24_Witness ==
    /\ run.handler = "alert"
    /\ ~run.force
    /\ \E w \in WinnersOf(run, "ETH-USDT-SWAP") :
          /\ w.mode = "swing"
          /\ w.bias = "long"
          /\ w.execReason = "b1_reversal_long"
          /\ w.price = 10014
          /\ ~BreakPath("long", w.price, series["ETH-USDT-SWAP"])
          /\ Oi15Of(series["ETH-USDT-SWAP"]).num < 0
    /\ "ETH-USDT-SWAP" \in run.notified

----------------------------------------------------------------------------
(* Properties of the heartbeat and of a failing notifier *)

\* The run passed authentication.
Authenticated(r) == r.handler = "alert" /\ r.status # "unauthorized"

\* C25: every authenticated run with dry#1 leaves alert:lastRun holding the
\* record of that run (its timestamp, whether it ended ok, whether a message
\* was sent), on whichever path it ends: nothing triggered, message sent,
\* derivation fetch failed, notifier failed, exception thrown.
C25_HeartbeatOnEveryExit ==
    [][(AlertStep /\ Authenticated(run') /\ ~run'.dry) =>
          /\ run'.status \in {"no_alert", "ok", "multi_fetch_failed",
                              "telegram_failed", "handler_exception"}
          /\ Len(heartbeat') = 1
          /\ heartbeat'[1].ts = now
          /\ heartbeat'[1].ok = (run'.status \in {"no_alert", "ok"})
          /\ heartbeat'[1].sent = (run'.status = "ok")
          /\ heartbeat'[1].stage =
                (IF run'.status \in {"no_alert", "ok"} THEN "" ELSE run'.status)]_vars

\* A run in which nothing triggered replaced the heartbeat of an earlier run
\* with its own, and no message has ever been sent.
C25_Witness ==
    /\ run.handler = "alert"
    /\ ~run.dry
    /\ run.status = "no_alert"
    /\ hist.prev.handler = "alert"
    /\ Authenticated(hist.prev)
    /\ ~hist.prev.dry
    /\ hist.prev.now < run.now
    /\ heartbeat = <<Heartbeat(run.now, TRUE, "", FALSE, 0)>>
    /\ telegram = <<>>

\* The call of the notifier failed in run r: it answered not ok, or the
\* request to it was rejected.
NotifierFailed(r) == r.notifier \in {"not_ok", "threw"}

\* What both forms of C26 say about the alert state: the instruments
\* triggered in a run whose notifier call failed have lastSentAt set to the
\* timestamp of that run, and a later non-forced run inside the cooldown
\* window evaluates none of them.
CooldownAfterFailure ==
    /\ (run.handler = "alert" /\ NotifierFailed(run)) =>
          \A i \in WinnerInsts(run.triggered) : lastSentAt[i] = run.now
    /\ (/\ run.handler = "alert" /\ Evaluated(run) /\ ~run.force
        /\ hist.prev.handler = "alert" /\ NotifierFailed(hist.prev)
        /\ run.now - hist.prev.now < cooldownMs) =>
          \A i \in WinnerInsts(hist.prev.triggered) :
             EvalsOf(run, i) = {} /\ i \notin run.notified

\* C26 as stated: a failed notifier call after a winner was found in a
\* non-dry run ends the run with telegram_failed, the heartbeat records stage
\* telegram_failed with sent=false and the number of winners, and the
\* cooldown of the triggered instruments is already running.
C26_NotifierFailureIsTelegramFailed ==
    /\ (run.handler = "alert" /\ NotifierFailed(run)) =>
          /\ run.status = "telegram_failed"
          /\ heartbeat = <<Heartbeat(run.now, FALSE, "telegram_failed", FALSE,
                                     Len(run.triggered))>>
    /\ CooldownAfterFailure

\* C26, amended: when the notifier answers not ok the run ends with
\* telegram_failed and the heartbeat records stage telegram_failed with
\* sent=false; when the request to the notifier is rejected the run ends in
\* the handler's catch and the heartbeat records stage handler_exception with
\* sent=false and triggered_count 0; either way the cooldown of the triggered
\* instruments is already running.
C26_NotifierFailureRecorded ==
    /\ (run.handler = "alert" /\ run.notifier = "not_ok") =>
          /\ run.status = "telegram_failed"
          /\ heartbeat = <<Heartbeat(run.now, FALSE, "telegram_failed", FALSE,
                                     Len(run.triggered))>>
    /\ (run.handler = "alert" /\ run.notifier = "threw") =>
          /\ run.status = "handler_exception"
          /\ heartbeat = <<Heartbeat(run.now, FALSE, "handler_exception", FALSE, 0)>>
    /\ (run.handler = "alert" /\ NotifierFailed(run)) =>
          ~run.dry /\ (run.triggered # <<>> \/ run.force)
    /\ CooldownAfterFailure

\* The notifier answered not ok in one run; the next run, five or fifteen
\* minutes later, found the instrument on cooldown and sent nothing.
C26_Witness ==
    /\ run.handler = "alert"
    /\ Evaluated(run)
    /\ ~run.force
    /\ hist.prev.handler = "alert"
    /\ hist.prev.status = "telegram_failed"
    /\ hist.prev.triggered # <<>>
    /\ run.now > hist.prev.now
    /\ run.now - hist.prev.now < cooldownMs
    /\ \A i \in WinnerInsts(hist.prev.triggered) :
          /\ i \in run.items
          /\ lastSentAt[i] = hist.prev.now
          /\ EvalsOf(run, i) = {}
    /\ run.status = "no_alert"
    /\ \A k \in DOMAIN telegram : ~telegram[k].ok

----------------------------------------------------------------------------
(* The classifier and the B1 band as functions of their inputs *)

\* Operands of pctChange: a missing value, zero, and three sizes.
MaxOperand == 3
Operands == {NoNum} \cup (0 .. MaxOperand)

\* 1h levels as computeLevelsFromSeries returns them: lo <= hi, both the
\* price of a stored point; prices around them.
BandLevels == {100, 110, 120}
BandMargin == 3
BandPrices == (100 - BandMargin) .. (120 + BandMargin)
Levels1h(w, hi, lo) ==
    LET l == IF w THEN [warmup |-> TRUE, hi |-> 0, lo |-> 0]
             ELSE [warmup |-> FALSE, hi |-> hi, lo |-> lo]
    IN  ("1h" :> l) @@ ("4h" :> [warmup |-> TRUE, hi |-> 0, lo |-> 0])

\* One delta as computeTfDeltas derives it from two stored points.
ClassifyCall ==
    /\ \E pNow \in Operands, pPrev \in Operands,
          oNow \in Operands, oPrev \in Operands :
          LET price_change_pct == pctChange(pNow, pPrev)
              oi_change_pct == pctChange(oNow, oPrev)
              state == classifyState(price_change_pct, oi_change_pct)
          IN  run' = [handler |-> "classifyState",
                      price_change_pct |-> price_change_pct,
                      oi_change_pct |-> oi_change_pct,
                      state |-> state,
                      lean |-> addLeanAndWhy(state)]
    /\ UNCHANGED <<now, kvData, kvAlert, telegram, hist>>

\* One call of strongRecoB1.
EdgeRecoCall ==
    /\ \E w \in BOOLEAN, lo \in BandLevels, hi \in BandLevels,
          price \in BandPrices, bias \in {"long", "short", "neutral"} :
          /\ lo <= hi
          /\ run' = [handler |-> "strongRecoB1",
                     bias |-> bias,
                     l1h |-> Levels1h(w, hi, lo)["1h"],
                     price |-> price,
                     strong |-> strongRecoB1(bias, Levels1h(w, hi, lo), price)]
    /\ UNCHANGED <<now, kvData, kvAlert, telegram, hist>>

\* One call of biasFromItem on the deltas the derivation engine computes
\* from a series of n points: flat at 100 with open interest 50, except the
\* point fifteen minutes before the newest (pMid) and the newest (pNow, oiNow).
BiasSeriesLengths == {1, 3, 4, 12, 13, 48, 49}
BiasSeries(n, pMid, pNow, oiNow) ==
    [k \in 1..n |->
        Point(StartBucket - n + k, (StartBucket - n + k) * BUCKET_MS,
              IF k = n THEN pNow ELSE IF k = n - 3 THEN pMid ELSE 100, 1,
              IF k = n THEN oiNow ELSE 50)]

BiasCall ==
    /\ \E n \in BiasSeriesLengths, pMid \in {98, 102}, pNow \in {99, 101},
          oiNow \in {49, 50, 51}, mode \in {"scalp", "swing", "build"} :
          LET points == BiasSeries(n, pMid, pNow, oiNow)
              item == [deltas |-> [tf \in TFs |-> computeTfDeltas(points, tf)]]
          IN  run' = [handler |-> "biasFromItem",
                      mode |-> mode,
                      points |-> n,
                      deltas |-> item.deltas,
                      bias |-> biasFromItem(item, mode)]
    /\ UNCHANGED <<now, kvData, kvAlert, telegram, hist>>

InitPure == InitWith(NoSeries)
NextPure == ClassifyCall \/ EdgeRecoCall \/ BiasCall
SpecPure == InitPure /\ [][NextPure]_vars

\* The sign of a percentage, from its fraction.
PctPositive(x) == ~x.nul /\ x.num * x.den > 0
PctNegative(x) == ~x.nul /\ x.num * x.den < 0
PctNotPositive(x) == ~x.nul /\ x.num * x.den <= 0

\* C27: the classifier and its lean return the row of the table: price up
\* and OI up is longs opening / long; price down and OI up is shorts
\* opening / short; price up and OI not up is shorts closing / long; price
\* down and OI not up is longs closing / short; and the result is unknown
\* / neutral exactly when one of the two changes is null.  (The table has
\* no row for a price change of exactly zero.)
C27_ClassificationTable ==
    run.handler = "classifyState" =>
        LET p == run.price_change_pct
            oi == run.oi_change_pct
            row(st, ln) == run.state = st /\ run.lean = ln
        IN  /\ (PctPositive(p) /\ PctPositive(oi)) => row("longs opening", "long")
            /\ (PctNegative(p) /\ PctPositive(oi)) => row("shorts opening", "short")
            /\ (PctPositive(p) /\ PctNotPositive(oi)) => row("shorts closing", "long")
            /\ (PctNegative(p) /\ PctNotPositive(oi)) => row("longs closing", "short")
            /\ (run.state = "unknown") <=> (p.nul \/ oi.nul)
            /\ (run.lean = "neutral") <=> (p.nul \/ oi.nul)

\* The price fell while the open interest did not move: longs closing.
C27_Witness ==
    /\ run.handler = "classifyState"
    /\ PctNegative(run.price_change_pct)
    /\ ~run.oi_change_pct.nul /\ run.oi_change_pct.num = 0
    /\ run.state = "longs closing"
    /\ run.lean = "short"

\* C28: the B1 band is symmetric and inclusive for every 1h range: a long
\* priced at the 1h low is in the band, a short priced at the 1h high is in
\* the band, and when the high is the low plus the edge both are.
C28_BandInclusiveForEveryRange ==
    (run.handler = "strongRecoB1" /\ ~run.l1h.warmup) =>
        /\ (run.bias = "long" /\ run.price = run.l1h.lo) => run.strong
        /\ (run.bias = "short" /\ run.price = run.l1h.hi) => run.strong
        /\ (/\ 100 * (run.l1h.hi - run.l1h.lo)
                    = strongEdgePct1h * (run.l1h.hi - run.l1h.lo)
            /\ run.bias \in {"long", "short"}
            /\ run.price >= run.l1h.lo
            /\ run.price <= run.l1h.hi) => run.strong

----------------------------------------------------------------------------
(* The evaluator under different leverage configurations *)

\* ALERT_LEVERAGE_ENABLED=0, the defaults, and a deployment with small
\* budgets, a low cap and thresholds every market exceeds.
LeverageOff == [DefaultLeverage EXCEPT !.enabled = FALSE]
LeverageTight == LeverageConfig(TRUE, 10, 20, 30, 3, 0, 10, 0, 0)
LeverageConfigs == {LeverageOff, DefaultLeverage, LeverageTight}

LeverageRequests ==
    {Request(<<"ETHUSDT">>, QuoteMap(NoQuote, q, NoQuote), m, FALSE, f, "none") :
        q \in {EthFlat, EthMomentum}, m \in {<<"swing">>, AllModesRaw}, f \in BOOLEAN}
    \cup
    {Request(<<"ETHUSDT">>, QuoteMap(NoQuote, EthMomentum, NoQuote), <<"swing">>, TRUE, FALSE, "none")}
    \cup
    {Request(<<"BTCUSDT", "ETHUSDT">>, QuoteMap(b, EthShort, NoQuote), <<"swing">>, FALSE, FALSE, "none") :
        b \in {BtcBull, BtcFlat}}

\* Without its leverage suggestions.
RECURSIVE StripLeverage(_)
StripLeverage(triggered) ==
    IF triggered = <<>> THEN <<>>
    ELSE <<[f \in DOMAIN Head(triggered) \ {"leverage"} |-> Head(triggered)[f]]>>
         \o StripLeverage(Tail(triggered))

\* One request served by the deployment, and what the same request, at the
\* same time and on the same store, gives a deployment that differs in its
\* leverage configuration only (run.twin).
LeverageRun ==
    /\ hist.runs < MaxRuns
    /\ \E req0 \in LeverageRequests, lev \in LeverageConfigs,
          other \in LeverageConfigs :
          /\ other # lev
          /\ \E r \in {alertHandler([req0 EXCEPT !.leverage = lev], now, KvOfState,
                                 AlertOfState, heartbeat, telegram)},
             r2 \in {alertHandler([req0 EXCEPT !.leverage = other], now, KvOfState,
                                  AlertOfState, heartbeat, telegram)} :
                /\ instmap' = r.kv.instmap
                /\ instList' = r.kv.instList
                /\ series' = r.kv.series
                /\ lastBucket' = r.kv.lastBucket
                /\ lastState' = r.ast.lastState
                /\ lastState15m' = r.ast.lastState15m
                /\ lastSentAt' = r.ast.lastSentAt
                /\ heartbeat' = r.hb
                /\ telegram' = r.tg
                /\ run' = r.run @@ [cred |-> KeyCredential,
                                    leverage |-> lev,
                                    twin |-> [leverage |-> other,
                                              triggered |-> r2.run.triggered,
                                              evals |-> r2.run.evals,
                                              status |-> r2.run.status,
                                              kv |-> r2.kv, ast |-> r2.ast,
                                              hb |-> r2.hb, tg |-> r2.tg]]
                /\ hist' = [hist EXCEPT
                      !.runs = @ + 1,
                      !.prev = run,
                      !.prevNotif = [i \in Insts |->
                          IF i \in r.run.notified THEN hist.lastNotif[i] ELSE @[i]],
                      !.lastNotif = [i \in Insts |->
                          IF i \in r.run.notified THEN now ELSE @[i]]]
    /\ UNCHANGED <<now, snap>>

NextLeverage == AlertTick \/ LeverageRun
SpecLeverage == Init /\ [][NextLeverage]_vars

\* C29: the leverage configuration never changes gating: the same request
\* on the same store under another leverage configuration triggers the same
\* instruments in the same modes, skips the others for the same reasons and
\* leaves the same keys in the store (and hands the notifier the same
\* instruments).
C29_LeverageNeverChangesGating ==
    run.handler = "alert" =>
        /\ StripLeverage(run.twin.triggered) = StripLeverage(run.triggered)
        /\ run.twin.evals = run.evals
        /\ run.twin.status = run.status
        /\ run.twin.kv = KvOfState
        /\ run.twin.ast = AlertOfState
        /\ run.twin.hb = heartbeat
        /\ run.twin.tg = telegram

\* A run with a winner whose suggestion differs between the two
\* configurations, one of them with none at all, another time both reduced.
C29_Witness ==
    /\ run.handler = "alert"
    /\ ~run.force
    /\ run.triggered # <<>>
    /\ run.leverage = DefaultLeverage
    /\ run.twin.leverage = LeverageTight
    /\ run.triggered[1].leverage # NoLeverage
    /\ run.twin.triggered[1].leverage # NoLeverage
    /\ run.twin.triggered[1].leverage.adjustedMax < run.triggered[1].leverage.adjustedMax
    /\ run.twin.triggered[1].leverage.oiReduced

----------------------------------------------------------------------------
(* The derivation engine when an invocation is cancelled *)

\* fetchOne stopped by the platform between two of its store operations:
\* done is the number of writes of the append block that completed, in the
\* order of the code: rpush, ltrim (when the list is over 288), set
\* lastBucket.  The result is the store the invocation leaves.
WritesOfAppend == 3
fetchOneCancelled(symbol, t, quote, listOk, kv, done) ==
    LET base == baseFromSymbolUSDT(symbol)
    IN  IF base = "" THEN kv
        ELSE
        LET res == resolveOkxSwapInstId(symbol, kv.instmap, kv.instList, listOk)
            kv1 == [kv EXCEPT !.instmap = res.instmap, !.instList = res.instList]
            instId == res.id
        IN  IF instId = "" THEN kv1
            ELSE
            LET okx == fetchOkxSwap(instId, quote)
            IN  IF ~okx.ok THEN kv1
                ELSE
                LET bucket == Bucket(t)
                    lastBucketNum == kv1.lastBucket[instId]
                    point == Point(bucket, t, okx.price, okx.fr, okx.oi)
                IN  IF ~ShouldAppend(lastBucketNum, bucket) \/ done = 0 THEN kv1
                    ELSE IF done = 1
                    THEN [kv1 EXCEPT !.series[instId] = Append(@, point)]
                    ELSE IF done = 2
                    THEN [kv1 EXCEPT !.series[instId] = PushAndTrim(@, point)]
                    ELSE [kv1 EXCEPT !.series[instId] = PushAndTrim(@, point),
                                     !.lastBucket[instId] = bucket]

\* GET /api/multi for one symbol, cancelled before it answers.
MultiCancelled ==
    /\ hist.runs < MaxRuns
    /\ \E symbol \in {"ETHUSDT", "BTCUSDT"}, quote \in MultiQuotes,
          done \in 0 .. WritesOfAppend :
       \E kv \in {fetchOneCancelled(symbol, now, quote, TRUE, KvOfState, done)} :
              /\ instmap' = kv.instmap
              /\ instList' = kv.instList
              /\ series' = kv.series
              /\ lastBucket' = kv.lastBucket
              /\ run' = [handler |-> "multi_cancelled", now |-> now,
                         symbols |-> <<symbol>>, done |-> done]
    /\ hist' = [hist EXCEPT !.runs = @ + 1,
                            !.maxRunNow = Max2(@, now),
                            !.regressed = @ \/ now < hist.maxRunNow]
    /\ UNCHANGED <<now, snap, kvAlert, telegram>>

\* Runs one after the other on a clock that only advances.
InitCancel == \E ser \in MultiSeeds : InitWith(ser)
NextCancel == Tick \/ MultiRun \/ MultiCancelled
SpecCancel == InitCancel /\ [][NextCancel]_vars

BucketsOf(ser) == {ser[k].b : k \in DOMAIN ser}
OnePointPerBucket(ser) == Cardinality(BucketsOf(ser)) = Len(ser)

\* C30: whatever the point an invocation is cancelled at, the series keeps
\* at most one point per bucket afterwards, lastBucket is the bucket of the
\* newest point, and after a later run has answered for an instrument its
\* series is no longer than 288.
C30_InvariantsSurviveCancellation ==
    \A i \in Insts :
       /\ OnePointPerBucket(series[i])
       /\ (run.handler = "multi" /\ DerivedOk(run.results, i)) =>
             /\ Len(series[i]) <= SERIES_POINTS_24H
             /\ lastBucket[i] = Last(series[i]).b

----------------------------------------------------------------------------
(* Two evaluator invocations that may overlap *)

\* Each invocation evaluates ETHUSDT in swing mode, not dry, and goes through
\* the handler's awaits one at a time: the derivation request, the read of
\* alert:lastSentAt with the cooldown check, the gates with the writes of
\* alert:lastState and alert:lastSentAt, and the notifier with the heartbeat.
\* run.inv[p] is the invocation's local state; lastSentRead is what its
\* redis.get returned.
Invocations == {1, 2}
IdleInvocation ==
    [pc |-> "idle", t |-> 0, force |-> FALSE, results |-> <<>>,
     lastSentRead |-> NoNum, triggered |-> <<>>, notified |-> FALSE]
InFlight(inv) == inv.pc \notin {"idle", "done"}
OverlapInst == "ETH-USDT-SWAP"

InitOverlap ==
    /\ now = StartNow
    /\ snap = [k \in {} |-> 0]
    /\ instmap = [b \in Bases |-> IF b = "XYZ" THEN "" ELSE b \o "-USDT-SWAP"]
    /\ instList = TRUE
    /\ series = AlertSeries
    /\ lastBucket = LastBucketOf(AlertSeries)
    /\ lastState = [m \in Modes |-> [i \in Insts |-> ""]]
    /\ lastState15m = [i \in Insts |-> ""]
    /\ lastSentAt = [i \in Insts |-> NoNum]
    /\ heartbeat = <<>>
    /\ telegram = <<>>
    /\ run = [handler |-> "alert_overlap", inv |-> [p \in Invocations |-> IdleInvocation]]
    /\ hist = InitHist(AlertSeries) @@ [overlapped |-> FALSE]

\* The derivation request and const now = Date.now().
OverlapDerive(p) ==
    /\ run.inv[p].pc = "idle"
    /\ \E force \in BOOLEAN, q \in {EthMomentum, EthFlat} :
       \E m \in {multiHandler(<<"ETHUSDT">>, now, QuoteMap(NoQuote, q, NoQuote),
                              TRUE, KvOfState)} :
          /\ instmap' = m.kv.instmap
          /\ instList' = m.kv.instList
          /\ series' = m.kv.series
          /\ lastBucket' = m.kv.lastBucket
          /\ run' = [run EXCEPT !.inv[p] = [@ EXCEPT !.pc = "derived", !.t = now,
                                                     !.force = force,
                                                     !.results = m.results]]
    /\ hist' = [hist EXCEPT !.overlapped =
                    @ \/ \E o \in Invocations \ {p} : InFlight(run.inv[o])]
    /\ UNCHANGED <<now, snap, kvAlert, telegram>>

\* redis.get(lastSentAt) and the cooldown check.
OverlapCheck(p) ==
    LET inv == run.inv[p]
        lastSent == lastSentAt[OverlapInst]
    IN  /\ inv.pc = "derived"
        /\ run' = [run EXCEPT !.inv[p] =
                      [@ EXCEPT !.lastSentRead = lastSent,
                                !.pc = IF onCooldown(inv.force, lastSent, inv.t)
                                       THEN "skipped" ELSE "passed"]]
        /\ UNCHANGED <<now, kvData, kvAlert, telegram, hist>>

\* The levels, the mode loop and redis.set(lastSentAt) for a winner.
OverlapEvaluate(p) ==
    LET inv == run.inv[p]
        item == inv.results[1]
        levels == computeLevelsFromSeries(series[OverlapInst])
    IN  /\ inv.pc = "passed"
        /\ IF warmupGate(inv.force, levels)
           THEN /\ run' = [run EXCEPT !.inv[p].pc = "skipped"]
                /\ UNCHANGED <<lastState, lastState15m, lastSentAt>>
           ELSE \E r \in {evalModes(item, requestModes(<<"swing">>), 1, FALSE, inv.force,
                                     computeBtcMacro(inv.results), DefaultLeverage,
                                     levels, series[OverlapInst],
                                     [ast |-> AlertOfState, evals |-> <<>>])} :
                \E ast \in {IF r.winner.mode = "" THEN r.ast
                             ELSE writeLastSentAt(OverlapInst, inv.t, FALSE, r.ast)} :
                   /\ lastState' = ast.lastState
                   /\ lastState15m' = ast.lastState15m
                   /\ lastSentAt' = ast.lastSentAt
                   /\ run' = [run EXCEPT !.inv[p] =
                                 IF r.winner.mode = "" THEN [@ EXCEPT !.pc = "skipped"]
                                 ELSE [@ EXCEPT !.pc = "triggered",
                                                !.triggered = <<r.winner>>]]
        /\ UNCHANGED <<now, kvData, heartbeat, telegram, hist>>

\* The end of the handler: no_alert, or the notifier and the heartbeat.
OverlapRespond(p) ==
    LET inv == run.inv[p]
        n == Len(inv.triggered)
    IN  /\ inv.pc \in {"skipped", "triggered"}
        /\ IF ~inv.force /\ n = 0
           THEN /\ heartbeat' = writeHeartbeat(Heartbeat(inv.t, TRUE, "", FALSE, 0),
                                               FALSE, heartbeat)
                /\ run' = [run EXCEPT !.inv[p].pc = "done"]
                /\ UNCHANGED telegram
           ELSE /\ telegram' = Append(telegram, [ok |-> TRUE, ts |-> inv.t,
                                                 insts |-> WinnerInsts(inv.triggered)])
                /\ heartbeat' = writeHeartbeat(Heartbeat(inv.t, TRUE, "", TRUE, n),
                                               FALSE, heartbeat)
                /\ run' = [run EXCEPT !.inv[p] = [@ EXCEPT !.pc = "done",
                                                           !.notified = n > 0]]
        /\ UNCHANGED <<now, kvData, lastState, lastState15m, lastSentAt, hist>>

OverlapStep == \E p \in Invocations :
    OverlapDerive(p) \/ OverlapCheck(p) \/ OverlapEvaluate(p) \/ OverlapRespond(p)
NextOverlap == Tick \/ OverlapStep
SpecOverlap == InitOverlap /\ [][NextOverlap]_vars

\* Both invocations notified the instrument, neither of them forced, less
\* than a cooldown apart.
BothNotifiedInWindow ==
    /\ \A p \in Invocations : run.inv[p].notified /\ ~run.inv[p].force
    /\ Abs(run.inv[1].t - run.inv[2].t) < cooldownMs

\* C31: when the invocations are strictly serial (the second starts after
\* the first has answered), the two never both notify the instrument within
\* one cooldown window.
C31_SerialRunsRespectCooldown ==
    ~hist.overlapped => ~BothNotifiedInWindow

\* C31, the race: two overlapping invocations both read no lastSentAt (each
\* passed the cooldown check before either had written the key) and both
\* notified within one cooldown window.
C31_Witness ==
    /\ hist.overlapped
    /\ BothNotifiedInWindow
    /\ \A p \in Invocations : run.inv[p].lastSentRead = NoNum
    /\ lastSentAt[OverlapInst] # NoNum
    /\ Len(telegram) = 2

----------------------------------------------------------------------------
(* Two derivation computations for one instrument that may overlap *)

\* fetchOne for ETHUSDT twice: the symbol listed twice in one request
\* (Promise.all starts both), or two requests (the evaluator's and a
\* drilldown).  Each goes through its store operations one await at a time;
\* run.inv[p] holds its local variables.
Computations == {1, 2}
IdleComputation ==
    [pc |-> "idle", t |-> 0, instId |-> "", quote |-> NoQuote,
     lastBucketNum |-> NoNum, wrotePoint |-> FALSE, deltas |-> <<>>]

InitParallel ==
    \E ser \in MultiSeeds :
        /\ now = StartNow
        /\ snap = [k \in {} |-> 0]
        /\ instmap = [b \in Bases |-> ""]
        /\ instList = FALSE
        /\ series = ser
        /\ lastBucket = LastBucketOf(ser)
        /\ lastState = [m \in {"scalp", "swing", "build"} |-> [i \in Insts |-> ""]]
        /\ lastState15m = [i \in Insts |-> ""]
        /\ lastSentAt = [i \in Insts |-> NoNum]
        /\ heartbeat = <<>>
        /\ telegram = <<>>
        /\ run = [handler |-> "multi_parallel",
                  inv |-> [p \in Computations |-> IdleComputation]]
        /\ hist = InitHist(ser)

\* resolveOkxSwapInstId, fetchOkxSwap and redis.get(lastBucketKey).
ParallelGet(p) ==
    /\ run.inv[p].pc = "idle"
    /\ \E quote \in MultiQuotes :
       \E res \in {resolveOkxSwapInstId("ETHUSDT", instmap, instList, TRUE)} :
          /\ instmap' = res.instmap
          /\ instList' = res.instList
          /\ run' = [run EXCEPT !.inv[p] =
                IF res.id = "" \/ ~fetchOkxSwap(res.id, quote).ok
                THEN [@ EXCEPT !.pc = "done"]
                ELSE [@ EXCEPT !.pc = "got", !.t = now, !.instId = res.id,
                               !.quote = fetchOkxSwap(res.id, quote),
                               !.lastBucketNum = lastBucket[res.id]]]
    /\ UNCHANGED <<now, snap, series, lastBucket, kvAlert, telegram, hist>>

\* The once-per-bucket gate and redis.rpush.
ParallelPush(p) ==
    LET c == run.inv[p]
    IN  /\ c.pc = "got"
        /\ IF ShouldAppend(c.lastBucketNum, Bucket(c.t))
           THEN /\ series' = [series EXCEPT ![c.instId] =
                       Append(@, Point(Bucket(c.t), c.t, c.quote.price, c.quote.fr,
                                       c.quote.oi))]
                /\ run' = [run EXCEPT !.inv[p] = [@ EXCEPT !.pc = "pushed",
                                                           !.wrotePoint = TRUE]]
           ELSE /\ run' = [run EXCEPT !.inv[p].pc = "set"]
                /\ UNCHANGED series
        /\ UNCHANGED <<now, snap, instmap, instList, lastBucket, kvAlert, telegram, hist>>

\* redis.llen and redis.ltrim when the list is over 288.
ParallelTrim(p) ==
    LET c == run.inv[p]
        lenAfter == Len(series[c.instId])
    IN  /\ c.pc = "pushed"
        /\ series' = [series EXCEPT ![c.instId] =
               IF lenAfter > SERIES_POINTS_24H
               THEN LRange(@, Max2(0, lenAfter - SERIES_POINTS_24H), lenAfter - 1)
               ELSE @]
        /\ run' = [run EXCEPT !.inv[p].pc = "trimmed"]
        /\ UNCHANGED <<now, snap, instmap, instList, lastBucket, kvAlert, telegram, hist>>

\* redis.set(lastBucketKey, bucket).
ParallelSet(p) ==
    LET c == run.inv[p]
    IN  /\ c.pc = "trimmed"
        /\ lastBucket' = [lastBucket EXCEPT ![c.instId] = Bucket(c.t)]
        /\ run' = [run EXCEPT !.inv[p].pc = "set"]
        /\ UNCHANGED <<now, snap, instmap, instList, series, kvAlert, telegram, hist>>

\* The trailing read and the deltas of the answer.
ParallelRead(p) ==
    LET c == run.inv[p]
        points == ParsePoints(ReadTail(series[c.instId]))
    IN  /\ c.pc = "set"
        /\ run' = [run EXCEPT !.inv[p] =
               [@ EXCEPT !.pc = "done",
                         !.deltas = [tf \in TFs |-> computeTfDeltas(points, tf)]]]
        /\ UNCHANGED <<now, kvData, kvAlert, telegram, hist>>

ParallelStep == \E p \in Computations :
    \/ ParallelGet(p) \/ ParallelPush(p) \/ ParallelTrim(p)
    \/ ParallelSet(p) \/ ParallelRead(p)
NextParallel == Tick \/ ParallelStep
SpecParallel == InitParallel /\ [][NextParallel]_vars

\* C32: when two derivation computations for the instrument overlap within
\* one bucket, its series still holds at most one point for that bucket.
C32_OnePointPerBucketWhenOverlapping ==
    (\A p \in Computations : run.inv[p].pc # "idle") =>
        \A i \in Insts :
            Cardinality({k \in DOMAIN series[i] : series[i][k].b = Bucket(now)}) <= 1

----------------------------------------------------------------------------
(* Properties of the state seeding *)

\* C33 as stated: after a run with dry#1, lastState of every mode evaluated
\* for an instrument is the instrument's current state in that mode,
\* whatever the outcome of the evaluation.
C33_SeededWheneverEvaluated ==
    (run.handler = "alert" /\ ~run.dry) =>
        \A k \in DOMAIN run.evals :
            lastState[run.evals[k].mode][run.evals[k].inst] = run.evals[k].curState

\* C33, amended: in a run with dry#1 every evaluated mode with a current
\* state other than "unknown" has that state stored in lastState, whatever
\* the outcome (no trigger, macro block, entry invalid, winner); an unknown
\* state leaves the key as it was; and a mode that was not evaluated for an
\* instrument (cooldown and 1h warmup deny before the mode loop, a winner
\* ends it) leaves its key as it was too.
C33_SeededUnlessUnknownWhateverTheOutcome ==
    [][(AlertStep /\ ~run'.dry) =>
          /\ \A k \in DOMAIN run'.evals :
                LET e == run'.evals[k]
                IN  lastState'[e.mode][e.inst] =
                        IF e.curState = "unknown" THEN lastState[e.mode][e.inst]
                        ELSE e.curState
          /\ \A m \in Modes, i \in Insts :
                (~\E k \in DOMAIN run'.evals :
                      run'.evals[k].mode = m /\ run'.evals[k].inst = i) =>
                    lastState'[m][i] = lastState[m][i]]_vars

\* A non-forced run in which one instrument was denied by the macro block
\* and seeded, and another run in which a mode failed entry validity, was
\* seeded, and a later mode won.
C33_Witness ==
    /\ run.handler = "alert"
    /\ ~run.dry /\ ~run.force
    /\ \E a \in DOMAIN run.evals, b \in DOMAIN run.evals :
          /\ a < b
          /\ run.evals[a].inst = run.evals[b].inst
          /\ run.evals[a].outcome = "entry_invalid"
          /\ run.evals[b].outcome = "winner"
          /\ run.evals[a].lastState = ""
          /\ lastState[run.evals[a].mode][run.evals[a].inst] = run.evals[a].curState
    /\ hist.prev.handler = "alert"
    /\ ~hist.prev.dry /\ ~hist.prev.force
    /\ \E k \in DOMAIN hist.prev.evals :
          /\ hist.prev.evals[k].outcome = "macro_block_btc_bull_expansion"
          /\ hist.prev.evals[k].lastState = ""
          /\ lastState[hist.prev.evals[k].mode][hist.prev.evals[k].inst]
                = hist.prev.evals[k].curState

----------------------------------------------------------------------------
(* Properties of the deltas over a series with gaps *)

\* Derivation runs one after the other on a clock that advances by 4 or 16
\* minutes: a bucket without a run leaves no point.
NextDerive == Tick \/ MultiRun
SpecDerive == InitCancel /\ [][NextDerive]_vars

ResultOf(results, i) ==
    results[CHOOSE k \in DOMAIN results : results[k].ok /\ results[k].instId = i]

\* C34 as stated: every delta that is not in warmup compares the newest
\* point with a point whose bucket is exactly k lower.
C34_DeltaOverExactlyKBuckets ==
    run.handler = "multi" =>
        \A i \in Insts : DerivedOk(run.results, i) =>
            \A tf \in TFs :
                LET d == ResultOf(run.results, i).deltas[tf]
                    ser == series[i]
                IN  ~d.warmup =>
                        \E k \in DOMAIN ser :
                            /\ ser[k].b = Last(ser).b - TF_TO_STEPS[tf]
                            /\ d.price_change_pct = pctChange(Last(ser).p, ser[k].p)
                            /\ d.oi_change_pct = pctChange(Last(ser).oi, ser[k].oi)

\* C34, amended: a delta is in warmup exactly when the series holds fewer
\* than k + 1 points; otherwise it compares the newest point with the point
\* k positions earlier, whose bucket is k lower when the newest k + 1 points
\* are of consecutive buckets and more than k lower when buckets in between
\* have no point.
C34_DeltaOverKPositions ==
    run.handler = "multi" =>
        \A i \in Insts : DerivedOk(run.results, i) =>
            \A tf \in TFs :
                LET d == ResultOf(run.results, i).deltas[tf]
                    ser == series[i]
                    n == Len(ser)
                    k == TF_TO_STEPS[tf]
                IN  /\ d.warmup <=> n < k + 1
                    /\ ~d.warmup =>
                          /\ d.price_change_pct = pctChange(ser[n].p, ser[n - k].p)
                          /\ d.oi_change_pct = pctChange(ser[n].oi, ser[n - k].oi)
                          /\ ser[n - k].b <= ser[n].b - k
                          /\ (\A j \in (n - k) .. (n - 1) : ser[j + 1].b = ser[j].b + 1)
                                => ser[n - k].b = ser[n].b - k

\* A run after a bucket without one: the 15m delta compares the newest point
\* with a point five buckets older, and the price moved in between.
C34_Witness ==
    /\ run.handler = "multi"
    /\ \E i \in Insts :
          /\ DerivedOk(run.results, i)
          /\ ~ResultOf(run.results, i).deltas["15m"].warmup
          /\ series[i][Len(series[i]) - 3].b < Last(series[i]).b - 3
          /\ PctGt0(ResultOf(run.results, i).deltas["15m"].price_change_pct)
          /\ ~ResultOf(run.results, i).deltas["4h"].warmup

----------------------------------------------------------------------------
(* Properties of the ingestor's instrument resolution *)

\* The outbound requests the last ingestor run made for symbol s.
CallsFor(s) == {run.calls[i].to : i \in {j \in DOMAIN run.calls : run.calls[j].for = s}}
SnapshotResultsOf(s) ==
    {run.results[i] : i \in {j \in DOMAIN run.results : run.results[j].symbol = s}}
NoMarket(s) == \A res \in SnapshotResultsOf(s) : res.error = "no perp market"

\* What the last run did for a symbol whose base the instrument map held.
ResolvedFromMap(s, b) ==
    /\ run.before[b] = "__NONE__" =>
          /\ CallsFor(s) = {}
          /\ NoMarket(s)
          /\ instmap[b] = "__NONE__"
    /\ run.before[b] \notin {"", "__NONE__"} =>
          /\ CallsFor(s) = {run.before[b]}
          /\ instmap[b] = run.before[b]

\* What it did for a symbol whose base the map did not hold, the listing
\* having answered.
ResolvedFromListing(s, b) ==
    LET target == b \o "-USDT-SWAP"
    IN  /\ (run.before[b] = "" /\ run.listing = "ok" /\ target \in OkxListed) =>
              /\ CallsFor(s) = {"listing", target}
              /\ run.status # "500" => instmap[b] = target
        /\ (run.before[b] = "" /\ run.listing = "ok" /\ target \notin OkxListed) =>
              /\ CallsFor(s) = {"listing"}
              /\ NoMarket(s)
              /\ run.status # "500" => instmap[b] = "__NONE__"

\* The canonical guess is returned, the market source is asked for it, and
\* the map is left without the base.
GuessReturned(s, b) ==
    /\ CallsFor(s) = {"listing", b \o "-USDT-SWAP"}
    /\ instmap[b] = ""

SnapshotBases == {i \in DOMAIN run.symbols : baseFromSymbolUSDT(run.symbols[i]) # ""}

----------------------------------------------------------------------------
(* Properties of the bias of a winner *)

Directions == {"long", "short"}
WinnersOfRun == {run.triggered[k] : k \in DOMAIN run.triggered}

\* C36 as stated: every winner of a run that notified has bias long or short.
C36_NotifiedWinnersHaveDirection ==
    (run.handler = "alert" /\ run.notifier # "none") =>
        \A w \in WinnersOfRun : w.bias \in Directions

\* C36, amended: in a run without force a mode evaluated with a neutral bias
\* never has a valid entry, and every winner, notified or not, has bias long
\* or short; only a forced run, which skips the entry triggers, can notify a
\* neutral bias.
C36_UnforcedWinnersHaveDirection ==
    (run.handler = "alert" /\ ~run.force) =>
        /\ \A k \in DOMAIN run.evals :
              run.evals[k].bias \notin Directions =>
                  ~run.evals[k].entryOk /\ run.evals[k].outcome # "winner"
        /\ \A w \in WinnersOfRun : w.bias \in Directions

\* A run without force that notified a winner, after evaluating another mode
\* or instrument with a neutral bias that did not win.
C36_Witness ==
    /\ run.handler = "alert"
    /\ ~run.force
    /\ run.notifier = "ok"
    /\ WinnersOfRun # {}
    /\ \E k \in DOMAIN run.evals :
          run.evals[k].bias = "neutral" /\ run.evals[k].triggers # {}

----------------------------------------------------------------------------
(* Properties of the call of the notifier *)

\* C37: the notifier is called in a run only if the run triggered at least
\* one symbol, whatever the value of force; a run whose items all failed or
\* that got no items calls no notifier.
C37_NotifierOnlyWhenTriggered ==
    (run.handler = "alert" /\ run.notifier # "none") => run.triggered # <<>>

----------------------------------------------------------------------------
(* Properties of the bias of a mode *)

BiasTf(mode) == IF mode = "build" THEN "4h" ELSE IF mode = "swing" THEN "1h" ELSE "5m"

\* The lean of the longest timeframe, from tf downwards, whose delta is out
\* of warmup; the 5m lean when none is.
RECURSIVE LeanWithFallback(_, _)
LeanWithFallback(deltas, tf) ==
    IF tf = "5m" \/ ~deltas[tf].warmup THEN deltas[tf].lean
    ELSE LeanWithFallback(deltas, IF tf = "4h" THEN "1h" ELSE IF tf = "1h" THEN "15m" ELSE "5m")

\* C38 as stated: scalp takes the 5m lean; swing the 1h lean, or the 15m and
\* then the 5m lean while the 1h delta is in warmup; build the 4h lean, or the
\* 1h, 15m, 5m lean in the same way; the bias is long, short or neutral.
C38_BiasFallsBackInWarmup ==
    run.handler = "biasFromItem" =>
        /\ run.bias = LeanWithFallback(run.deltas, BiasTf(run.mode))
        /\ run.bias \in {"long", "short", "neutral"}

\* C38, amended: scalp takes the 5m lean, swing the 1h lean, build the 4h
\* lean; a delta in warmup carries the lean neutral and that is the bias,
\* whatever the leans of the shorter timeframes; the bias is long, short or
\* neutral.
C38_BiasIsLeanOfModeTimeframe ==
    run.handler = "biasFromItem" =>
        /\ run.bias = run.deltas[BiasTf(run.mode)].lean
        /\ run.deltas[BiasTf(run.mode)].warmup => run.bias = "neutral"
        /\ run.bias \in {"long", "short", "neutral"}

\* Swing over four points: the 1h delta in warmup, the 15m lean long, the
\* bias neutral.
C38_Witness ==
    /\ run.handler = "biasFromItem"
    /\ run.mode = "swing"
    /\ run.deltas["1h"].warmup
    /\ ~run.deltas["15m"].warmup
    /\ run.deltas["15m"].lean = "long"
    /\ run.bias = "neutral"

----------------------------------------------------------------------------
(* Properties of the recent window and the levels of the hour *)

SweepReasons == {"long_sweep_reclaim", "short_sweep_reject"}

\* C39: for every instrument with at least 12 stored points, the minimum and
\* the maximum of the last N <= 12 stored prices lie within [1h.lo, 1h.hi] of
\* the levels computed from the same series; and no mode evaluation of a run
\* ends with a sweep reason.
C39_RecentWithinHourRange ==
    /\ \A i \in Insts :
          Len(series[i]) >= levelWindow1h =>
              LET l1h == computeLevelsFromSeries(series[i])["1h"]
              IN  /\ ~l1h.warmup
                  /\ \A n \in 1..levelWindow1h :
                        LET recent == getRecentPricesFromSeries(series[i], n)
                        IN  l1h.lo <= SeqMin(recent) /\ SeqMax(recent) <= l1h.hi
    /\ run.handler = "alert" =>
          /\ \A k \in DOMAIN run.evals : run.evals[k].execReason \notin SweepReasons
          /\ \A k \in DOMAIN run.triggered : run.triggered[k].execReason \notin SweepReasons

\* A scalp evaluation that reached the price triggers of the gate after a dip
\* was stored: the dip is the low of the hour and of the recent window, the
\* price is back above it, and the gate finds no trigger active.
C39_Witness ==
    /\ run.handler = "alert"
    /\ \E k \in DOMAIN run.evals :
          LET e == run.evals[k]
              l1h == computeLevelsFromSeries(series[e.inst])["1h"]
              recent == getRecentPricesFromSeries(series[e.inst], sweepLookbackPoints)
          IN  /\ e.mode = "scalp"
              /\ e.bias = "long"
              /\ e.execReason = "price_trigger_not_active"
              /\ ~l1h.warmup
              /\ SeqMin(recent) = l1h.lo
              /\ SeqMin(recent) < 10000
              /\ e.price > l1h.lo

----------------------------------------------------------------------------
(* Properties of the end of the cooldown *)

\* The run went through its item loop.
ItemLoopRan(r) ==
    r.handler = "alert" /\ (r.status \in {"ok", "no_alert", "telegram_failed"} \/ r.notifier = "threw")

\* The instrument passed detection, macro and entry validity in some mode.
PassedGates(r, i) ==
    \E k \in EvalsOf(r, i) :
        LET e == r.evals[k]
        IN  e.triggers # {} /\ e.entryOk /\ e.outcome # "macro_block_btc_bull_expansion"

\* C40: in a run without force, an instrument returned ok whose last send is
\* at least cooldown_ms back, or that has no alert:lastSentAt record, is not
\* denied by cooldown: unless the 1h levels are in warmup its modes are
\* evaluated, and if it passes detection, macro and entry validity in one of
\* them it is a winner of the run, handed to the notifier unless the run is dry.
C40_CooldownEnds ==
    [][(ItemLoopRan(run') /\ hist'.runs = hist.runs + 1 /\ ~run'.force) =>
          \A i \in run'.items :
              (lastSentAt[i] = NoNum \/ now - lastSentAt[i] >= cooldownMs) =>
                  /\ computeLevelsFromSeries(series'[i])["1h"].warmup \/ EvalsOf(run', i) # {}
                  /\ PassedGates(run', i) =>
                        /\ i \in WinnerInsts(run'.triggered)
                        /\ ~run'.dry =>
                              /\ run'.notifier # "none"
                              /\ i \in telegram'[Len(telegram')].insts]_vars

\* A run without force that notifies an instrument again, its previous
\* notification being at least cooldown_ms back.
C40_Witness ==
    /\ run.handler = "alert"
    /\ ~run.force
    /\ run.notifier = "ok"
    /\ \E i \in run.notified :
          /\ hist.prevNotif[i] # NoNum
          /\ hist.lastNotif[i] = run.now
          /\ run.now - hist.prevNotif[i] >= cooldownMs
          /\ PassedGates(run, i)

====
